---- MODULE Spec2Model ----
(***************************************************************************)
(* PixelSmith: the image pipeline orchestrator (core/pipeline.ts), its     *)
(* browser counterpart (ui/src/utils/wasmImageProcessor.ts), the pipeline  *)
(* validator and the CLI / server entry points that call them.             *)
(*                                                                         *)
(* JavaScript runs every synchronous stretch of code to completion, so an  *)
(* action is the code between two awaits.  Array indices are 0-based as in *)
(* the source; a TLA+ sequence s holds array element k at s[k + 1].        *)
(***************************************************************************)
EXTENDS Integers, Sequences, FiniteSets, TLC

\* ------------------------------------------------------------------ bounds
\* Largest number of inputs of a batch.
MaxInputs == 3
\* Largest concurrency value a caller passes (the smallest is -1).
MaxConcurrency == 2
\* Largest number of operations of a pipeline.
MaxOps == 2
\* Largest number of files given to an entry point.
MaxFiles == 2

\* Number of concurrent callers of ensureWasmInitialized.
MaxCallers == 3
\* Largest number of attempts to initialise the WebAssembly module.
MaxAttempts == 2

\* Image sizes go up to MaxDim in each dimension, crop amounts and resize
\* targets one further.
MaxDim == 4

\* ------------------------------------------------------------- JS helpers
Undefined == "undefined"

Min(a, b) == IF a < b THEN a ELSE b
Max(a, b) == IF a > b THEN a ELSE b

\* Array.prototype.slice's relative index: negative counts from the end.
RelativeIndex(k, len) == IF k < 0 THEN Max(len + k, 0) ELSE Min(k, len)

\* The 0-based indices Array.prototype.slice(start, end) selects from an
\* array of length len, in order.
SliceIndices(len, start, end) ==
    LET from == RelativeIndex(start, len)
        to   == RelativeIndex(end, len)
    IN  IF from < to THEN [n \in 1..(to - from) |-> from + n - 1] ELSE <<>>

Range(s) == {s[n] : n \in 1..Len(s)}

\* The fields of r named in S.
Restrict(r, S) == [f \in S |-> r[f]]

\* ================================================================ batches
VARIABLES
    impl,             \* "core": processBatch, "wasm": processBatchWASM
    inputs,           \* inputPaths / files: a sequence of [path, kind]
    concurrency,      \* the concurrency argument
    bpc,              \* position of the batch function
    bi,               \* the for loop's i
    queue,            \* core: queue; wasm: batch (indices of the window's runs)
    runs,             \* per input index: position of its single-image run
    promises,         \* per input index: the promise its run returned
    finished,         \* indices of the settled runs, in completion order
    results,          \* results
    completed,        \* wasm: completed
    wasmInitialized   \* wasm: module-level wasmInitialized

batchVars == <<impl, inputs, concurrency, bpc, bi, queue, runs, promises,
               finished, results, completed, wasmInitialized>>

\* One processImage run (pipeline.ts 26-126).
VARIABLES
    ifile,            \* the input file: name, ext and what its header says
    idir,             \* the outputDir argument
    ipattern,         \* pipeline.output.pattern
    ipipe,            \* pipeline.pipeline
    ipc,              \* position of processImage
    ij,               \* index of the operation the for-of loop is at
    imeta,            \* metadata
    iimage,           \* image: the calls made on the sharp instance, in order
    ifmt,             \* outputFormat
    iw,               \* finalWidth
    ih,               \* finalHeight
    isize,            \* inputSize
    ipath,            \* outputPath
    ifs,              \* the output files written
    iresult,          \* the promise processImage returned
    istart,           \* startTime
    iclock,           \* Date.now()
    ithrown,          \* the exception caught, if any
    ilog              \* what the run did, in order: operations and the write

imageVars == <<ifile, idir, ipattern, ipipe, ipc, ij, imeta, iimage, ifmt, iw, ih, isize,
               ipath, ifs, iresult, istart, iclock, ithrown, ilog>>

\* One run of an entry point: the CLI's main, or a request to the server.
VARIABLES
    entry,            \* "cli", "process", "process-batch" or "validate"
    esource,          \* where the descriptor comes from, and what is there
    eargs,            \* the rest of the arguments / of the request
    epc,              \* position of main / of the handler
    edesc,            \* pipeline
    evalidation,      \* what validatePipeline(pipeline) returned or threw
    ecalled,          \* processImage / processBatch has been invoked
    eresults,         \* per input: whether its outcome is a success
    eout,             \* the response sent, or the exit code and what was logged
    efs,              \* what the run wrote to the file system
    euploads          \* the uploaded temporary files on disk

entryVars == <<entry, esource, eargs, epc, edesc, evalidation, ecalled,
               eresults, eout, efs, euploads>>

\* A single call of one of the geometry and encoder functions.
VARIABLES
    fcall,            \* the function called and its arguments
    fpc,              \* "call" before the call, "done" after it
    fresult           \* what the call returned or threw

callVars == <<fcall, fpc, fresult>>

\* The callers of ensureWasmInitialized (wasmImageProcessor.ts 23-59).
VARIABLES
    wasmInitPromise,  \* module-level wasmInitPromise: 0 for null, else the
                      \* number of the attempt whose promise it holds
    attempts,         \* per call of initPhoton: the state of its promise
    callers           \* per caller: its position and the promise it awaits

initVars == <<wasmInitPromise, attempts, callers>>

\* The deadline or cancellation signal of the environment of a batch.
VARIABLES
    cancelled         \* the signal has been raised

notBatchVars == <<imageVars, entryVars, callVars, initVars, cancelled>>
notImageVars == <<batchVars, entryVars, callVars, initVars, cancelled>>
notEntryVars == <<batchVars, imageVars, callVars, initVars, cancelled>>
notCallVars  == <<batchVars, imageVars, entryVars, initVars, cancelled>>

\* What a file holds: a decodable image, nothing (the path does not exist or
\* the File cannot be read), or bytes that are no image.
InputKinds == {"ok", "missing", "corrupt"}

InputLists ==
    UNION {[1..n -> InputKinds] : n \in 0..MaxInputs}

\* inputPaths[k] is the path named k: all paths of a batch are distinct.
PathOf(k) == k

ConcurrencyValues == (0 - 1)..MaxConcurrency

\* The loop index of processBatchWASM falls without limit when concurrency is
\* negative.  slice(i, i + c) is empty for every i <= -len when c < 0, so all
\* indices at or below MinIndex behave alike and the model keeps i there.
MinIndex == 0 - (MaxInputs + 2)

NoPromise == [state |-> "none"]
Pending   == [state |-> "pending"]

N == Len(inputs)
KindOf(k) == inputs[k + 1]

\* ---- processImage / processImageWASM as seen by the batch ----------------

\* pipeline.ts 106-116: the value processImage returns on success.
ImageSuccess(k) ==
    [state |-> "fulfilled",
     value |-> [inputPath |-> PathOf(k), success |-> TRUE,
                outputPath |-> <<"out", PathOf(k)>>, error |-> Undefined]]

\* A catch block that lets the exception escape: the promise rejects.
ImageCatchRethrows(k, err) ==
    [state |-> "rejected", value |-> err]

\* pipeline.ts 117-125: the catch block turns the exception into a value.
ImageCatch(k, err) ==
    [state |-> "fulfilled",
     value |-> [inputPath |-> PathOf(k), success |-> FALSE,
                outputPath |-> Undefined, error |-> err]]

\* wasmImageProcessor.ts 300-305
WasmSuccess(k) ==
    [state |-> "fulfilled",
     value |-> [success |-> TRUE, filename |-> <<PathOf(k), "_processed">>,
                error |-> Undefined]]

\* wasmImageProcessor.ts 306-313
WasmCatch(k, err) ==
    [state |-> "fulfilled",
     value |-> [success |-> FALSE, filename |-> <<PathOf(k)>>, error |-> err]]

Settle(k, p) ==
    /\ runs' = [runs EXCEPT ![k] = "settled"]
    /\ promises' = [promises EXCEPT ![k] = p]
    /\ finished' = Append(finished, k)

InFlightRuns == {k \in DOMAIN runs : runs[k] \notin {"idle", "settled"}}

\* processImage, line 36: await stat(inputPath)
ImageStat(k) ==
    /\ impl = "core"
    /\ runs[k] = "stat"
    /\ IF KindOf(k) = "missing"
       THEN Settle(k, ImageCatch(k, "ENOENT"))
       ELSE /\ runs' = [runs EXCEPT ![k] = "metadata"]
            /\ UNCHANGED <<promises, finished>>
    /\ UNCHANGED notBatchVars
    /\ UNCHANGED <<impl, inputs, concurrency, bpc, bi, queue, results,
                   completed, wasmInitialized>>

\* processImage, line 40: await getImageMetadata(inputPath)
ImageMetadata(k) ==
    /\ impl = "core"
    /\ runs[k] = "metadata"
    /\ IF KindOf(k) = "corrupt"
       THEN Settle(k, ImageCatch(k, "unsupported image format"))
       ELSE /\ runs' = [runs EXCEPT ![k] = "pipeline"]
            /\ UNCHANGED <<promises, finished>>
    /\ UNCHANGED notBatchVars
    /\ UNCHANGED <<impl, inputs, concurrency, bpc, bi, queue, results,
                   completed, wasmInitialized>>

\* processImage, lines 43-116: the operations, the write and the return.
ImagePipeline(k) ==
    /\ impl = "core"
    /\ runs[k] = "pipeline"
    /\ Settle(k, ImageSuccess(k))
    /\ UNCHANGED notBatchVars
    /\ UNCHANGED <<impl, inputs, concurrency, bpc, bi, queue, results,
                   completed, wasmInitialized>>

\* processImageWASM, line 257: await ensureWasmInitialized()
WasmImageInit(k) ==
    /\ impl = "wasm"
    /\ runs[k] = "init"
    /\ IF wasmInitialized
       THEN /\ runs' = [runs EXCEPT ![k] = "load"]
            /\ UNCHANGED <<promises, finished>>
       ELSE Settle(k, WasmCatch(k, "Failed to initialize WebAssembly module"))
    /\ UNCHANGED notBatchVars
    /\ UNCHANGED <<impl, inputs, concurrency, bpc, bi, queue, results,
                   completed, wasmInitialized>>

\* processImageWASM, lines 263-305: await loadImage(file), then everything
\* up to the return is synchronous.
WasmImageLoad(k) ==
    /\ impl = "wasm"
    /\ runs[k] = "load"
    /\ IF KindOf(k) = "ok"
       THEN Settle(k, WasmSuccess(k))
       ELSE Settle(k, WasmCatch(k, "Processing failed"))
    /\ UNCHANGED notBatchVars
    /\ UNCHANGED <<impl, inputs, concurrency, bpc, bi, queue, results,
                   completed, wasmInitialized>>

\* ---- Promise.all ---------------------------------------------------------

\* Promise.all settles once every promise is fulfilled, or one is rejected.
AllSettled(q) ==
    \/ \A n \in 1..Len(q) : promises[q[n]].state = "fulfilled"
    \/ \E n \in 1..Len(q) : promises[q[n]].state = "rejected"

AnyRejected(q) == \E n \in 1..Len(q) : promises[q[n]].state = "rejected"

\* The values in the order the promises complete.
PromiseAllByCompletion(q, order) ==
    LET Member(k) == k \in Range(q)
        done == SelectSeq(order, Member)
    IN  [n \in 1..Len(done) |-> promises[done[n]].value]

\* Promise.all's value: the values in the order of the promises given.
PromiseAll(q, order) ==
    [n \in 1..Len(q) |-> promises[q[n]].value]

\* ---- processBatch (core) -------------------------------------------------

\* The window closes one run late.
WindowFullOffByOne(len, c, i, n) == len > c \/ i = n - 1

\* pipeline.ts 148
WindowFull(len, c, i, n) == len >= c \/ i = n - 1

\* pipeline.ts 140-148: one iteration of the for loop, up to the await.
BatchLaunch ==
    /\ impl = "core"
    /\ bpc = "loop"
    /\ bi < N
    /\ runs' = [runs EXCEPT ![bi] = "stat"]
    /\ promises' = [promises EXCEPT ![bi] = Pending]
    /\ queue' = Append(queue, bi)
    /\ IF WindowFull(Len(queue'), concurrency, bi, N)
       THEN bpc' = "await" /\ bi' = bi
       ELSE bpc' = "loop" /\ bi' = bi + 1
    /\ UNCHANGED notBatchVars
    /\ UNCHANGED <<impl, inputs, concurrency, finished, results, completed,
                   wasmInitialized>>

\* pipeline.ts 149-152: Promise.all(queue) settles.
BatchCollect ==
    /\ impl = "core"
    /\ bpc = "await"
    /\ AllSettled(queue)
    /\ IF AnyRejected(queue)
       THEN /\ bpc' = "rejected"
            /\ UNCHANGED <<bi, queue, finished, results>>
       ELSE /\ results' = results \o PromiseAll(queue, finished)
            /\ queue' = <<>>
            /\ bi' = bi + 1
            /\ bpc' = "loop"
            /\ UNCHANGED finished
    /\ UNCHANGED notBatchVars
    /\ UNCHANGED <<impl, inputs, concurrency, runs, promises, completed,
                   wasmInitialized>>

\* pipeline.ts 140, 155: the loop ends and results is returned.
BatchReturn ==
    /\ impl = "core"
    /\ bpc = "loop"
    /\ ~(bi < N)
    /\ bpc' = "returned"
    /\ UNCHANGED notBatchVars
    /\ UNCHANGED <<impl, inputs, concurrency, bi, queue, runs, promises,
                   finished, results, completed, wasmInitialized>>

\* ---- processBatchWASM ----------------------------------------------------

\* wasmImageProcessor.ts 326: await ensureWasmInitialized(); initPhoton
\* resolves or rejects.
WasmEnsureInitialized ==
    /\ impl = "wasm"
    /\ bpc = "init"
    /\ \E ok \in BOOLEAN :
         IF ok
         THEN wasmInitialized' = TRUE /\ bpc' = "loop"
         ELSE wasmInitialized' = FALSE /\ bpc' = "rejected"
    /\ UNCHANGED notBatchVars
    /\ UNCHANGED <<impl, inputs, concurrency, bi, queue, runs, promises,
                   finished, results, completed>>

\* wasmImageProcessor.ts 336-340: slice the window and start its runs.
WasmLaunch ==
    /\ impl = "wasm"
    /\ bpc = "loop"
    /\ bi < N
    /\ LET batch == SliceIndices(N, bi, bi + concurrency)
       IN  /\ queue' = batch
           /\ runs' = [k \in DOMAIN runs |->
                          IF k \in Range(batch) THEN "init" ELSE runs[k]]
           /\ promises' = [k \in DOMAIN promises |->
                          IF k \in Range(batch) THEN Pending ELSE promises[k]]
    /\ bpc' = "await"
    /\ UNCHANGED notBatchVars
    /\ UNCHANGED <<impl, inputs, concurrency, bi, finished, results, completed,
                   wasmInitialized>>

\* wasmImageProcessor.ts 338-347, 336: Promise.all settles, i += concurrency.
WasmCollect ==
    /\ impl = "wasm"
    /\ bpc = "await"
    /\ AllSettled(queue)
    /\ IF AnyRejected(queue)
       THEN /\ bpc' = "rejected"
            /\ UNCHANGED <<bi, queue, finished, results, completed>>
       ELSE /\ results' = results \o PromiseAll(queue, finished)
            /\ completed' = completed + Len(queue)
            /\ queue' = <<>>
            /\ bi' = Max(bi + concurrency, MinIndex)
            /\ bpc' = "loop"
            /\ UNCHANGED finished
    /\ UNCHANGED notBatchVars
    /\ UNCHANGED <<impl, inputs, concurrency, runs, promises, wasmInitialized>>

\* wasmImageProcessor.ts 336, 355
WasmReturn ==
    /\ impl = "wasm"
    /\ bpc = "loop"
    /\ ~(bi < N)
    /\ bpc' = "returned"
    /\ UNCHANGED notBatchVars
    /\ UNCHANGED <<impl, inputs, concurrency, bi, queue, runs, promises,
                   finished, results, completed, wasmInitialized>>

ImageIdle ==
    /\ ifile = Undefined /\ idir = Undefined /\ ipattern = [given |-> FALSE]
    /\ ipipe = <<>> /\ ipc = "idle" /\ ij = 0
    /\ imeta = Undefined /\ iimage = <<>> /\ ifmt = Undefined
    /\ iw = Undefined /\ ih = Undefined /\ isize = Undefined
    /\ ipath = Undefined /\ ifs = {} /\ iresult = NoPromise
    /\ istart = 0 /\ iclock = 0 /\ ithrown = Undefined /\ ilog = <<>>

EntryIdle ==
    /\ entry = "none" /\ esource = Undefined /\ eargs = Undefined
    /\ epc = "idle" /\ edesc = Undefined /\ evalidation = [called |-> FALSE]
    /\ ecalled = FALSE /\ eresults = <<>> /\ eout = [sent |-> FALSE]
    /\ efs = {} /\ euploads = {}

CallIdle ==
    fcall = [fn |-> "none"] /\ fpc = "idle" /\ fresult = [threw |-> FALSE]

WasmInitIdle ==
    wasmInitPromise = 0 /\ attempts = <<>> /\ callers = <<>>

\* processBatch and processBatchWASM take no deadline and no signal: the
\* signal is raised outside them, at any moment of a batch, and nothing in
\* them reads it.
RaiseCancellation ==
    /\ bpc \in {"init", "loop", "await"}
    /\ ~cancelled
    /\ cancelled' = TRUE
    /\ UNCHANGED <<batchVars, imageVars, entryVars, callVars, initVars>>

InitBatch ==
    /\ ImageIdle
    /\ EntryIdle
    /\ CallIdle
    /\ WasmInitIdle
    /\ cancelled = FALSE
    /\ impl \in {"core", "wasm"}
    /\ inputs \in InputLists
    /\ concurrency \in ConcurrencyValues
    /\ bpc = IF impl = "core" THEN "loop" ELSE "init"
    /\ bi = 0
    /\ queue = <<>>
    /\ runs = [k \in 0..(Len(inputs) - 1) |-> "idle"]
    /\ promises = [k \in 0..(Len(inputs) - 1) |-> NoPromise]
    /\ finished = <<>>
    /\ results = <<>>
    /\ completed = 0
    /\ wasmInitialized = FALSE

vars == <<batchVars, imageVars, entryVars, callVars, initVars, cancelled>>

NextBatch ==
    \/ BatchLaunch
    \/ BatchCollect
    \/ BatchReturn
    \/ WasmEnsureInitialized
    \/ WasmLaunch
    \/ WasmCollect
    \/ WasmReturn
    \/ \E k \in DOMAIN runs : ImageStat(k)
    \/ \E k \in DOMAIN runs : ImageMetadata(k)
    \/ \E k \in DOMAIN runs : ImagePipeline(k)
    \/ \E k \in DOMAIN runs : WasmImageInit(k)
    \/ \E k \in DOMAIN runs : WasmImageLoad(k)
    \/ RaiseCancellation

SpecBatch == InitBatch /\ [][NextBatch]_vars

\* The event loop runs every continuation that is ready.
FairBatch == SpecBatch /\ WF_vars(NextBatch)

\* ----------------------------------------------------------------- claims

\* C1: with an integer concurrency limit C >= 1, never more than C
\* single-image runs are in flight, in processBatch and in processBatchWASM,
\* and every run in flight belongs to the current window: the next window
\* starts only after every run of this one has finished.
C1_AtMostCInFlight ==
    concurrency >= 1 =>
        /\ Cardinality(InFlightRuns) <= concurrency
        /\ InFlightRuns \subseteq Range(queue)

\* A later window running at the limit, after an earlier window finished.
C1_Witness ==
    /\ concurrency >= 1
    /\ Len(results) >= concurrency
    /\ Cardinality(InFlightRuns) = concurrency

\* C2: processBatch returns the outcomes in input order, results[i].inputPath
\* = inputPaths[i], whatever the order in which the runs complete.
C2_ResultsInInputOrder ==
    impl = "core" =>
        \A n \in 1..Len(results) : results[n].inputPath = PathOf(n - 1)

\* A returned batch in which a later input completed before an earlier one.
C2_Witness ==
    /\ impl = "core"
    /\ bpc = "returned"
    /\ Len(results) = N
    /\ \E n \in 1..(Len(finished) - 1) : finished[n] > finished[n + 1]

\* C3: once the batch loop is entered, processBatch and processBatchWASM
\* eventually return a list of exactly N outcomes, for every integer
\* concurrency value, 0 and negative values included.
C3_BatchReturnsAll ==
    (bpc = "loop") ~> (bpc = "returned" /\ Len(results) = N)

\* C4: a failing image changes no other outcome: processBatch never rejects,
\* and the list it returns has one outcome per input, outcome i being a
\* failure exactly when input i's own run fails.
C4_FailureIsolated ==
    impl = "core" =>
        /\ bpc # "rejected"
        /\ bpc = "returned" =>
              /\ Len(results) = N
              /\ \A k \in 0..(N - 1) :
                    results[k + 1].success = (KindOf(k) = "ok")

\* Three inputs, two at a time: the first is undecodable, its window mate and
\* the input of the next window succeed.
C4_Witness ==
    /\ impl = "core"
    /\ bpc = "returned"
    /\ N = 3
    /\ concurrency = 2
    /\ KindOf(0) = "corrupt" /\ KindOf(1) = "ok" /\ KindOf(2) = "ok"
    /\ ~results[1].success /\ results[2].success /\ results[3].success

\* ============================================================ operations
\* A JavaScript object is a record holding the fields that are present.
Has(o, f) == f \in DOMAIN o
Get(o, f, default) == IF f \in DOMAIN o THEN o[f] ELSE default

\* !x is false, for a field that holds a number when present, and for one
\* that holds a string.
Truthy(o, f) == Has(o, f) /\ o[f] # 0
TruthyString(o, f) == Has(o, f) /\ o[f] # ""

\* Math.round of the quotient a / b of two non-negative integers, b > 0.
RoundDiv(a, b) == (2 * a + b) \div (2 * b)

Returned(calls) == [threw |-> FALSE, calls |-> calls]
Threw(message)  == [threw |-> TRUE, error |-> message]

\* logger.ts 205-237: applyMetadata
ApplyMetadata(operation) ==
    LET strip      == Get(operation, "strip", TRUE)
        autorotate == Get(operation, "autorotate", TRUE)
        rotated    == IF autorotate THEN <<[call |-> "rotate"]>> ELSE <<>>
    IN  IF strip
        THEN Returned(rotated \o
                 <<[call |-> "withMetadata", orientation |-> Undefined]>>)
        ELSE Returned(rotated \o <<[call |-> "withMetadata"]>>)

\* presets.ts 127-141: gravityToPosition
GravityToPosition(gravity) ==
    CASE gravity = "north"     -> "top"
      [] gravity = "south"     -> "bottom"
      [] gravity = "east"      -> "right"
      [] gravity = "west"      -> "left"
      [] gravity = "center"    -> "centre"
      [] gravity = "northeast" -> "right top"
      [] gravity = "northwest" -> "left top"
      [] gravity = "southeast" -> "right bottom"
      [] gravity = "southwest" -> "left bottom"
      [] OTHER                 -> "centre"

\* presets.ts 146-154: calculatePercentCrop
CalculatePercentCrop(edge, percent, width, height) ==
    LET dimension == IF edge = "top" \/ edge = "bottom" THEN height ELSE width
    IN  RoundDiv(percent * dimension, 100)

\* The remaining dimension is not floored.
ApplyCropFromEdgeNoFloor(edge, cropValue, width, height) ==
    CASE edge \in {"top", "bottom"} ->
           Returned(<<[call |-> "extract", left |-> 0,
                       top |-> IF edge = "top" THEN cropValue ELSE 0,
                       width |-> width, height |-> height - cropValue]>>)
      [] edge \in {"left", "right"} ->
           Returned(<<[call |-> "extract",
                       left |-> IF edge = "left" THEN cropValue ELSE 0,
                       top |-> 0, width |-> width - cropValue,
                       height |-> height]>>)
      [] OTHER -> Threw("Unknown crop edge")

\* presets.ts 159-210: applyCropFromEdge
ApplyCropFromEdge(edge, cropValue, width, height) ==
    CASE edge = "top" ->
           Returned(<<[call |-> "extract", left |-> 0, top |-> cropValue,
                       width |-> width,
                       height |-> Max(1, height - cropValue)]>>)
      [] edge = "bottom" ->
           Returned(<<[call |-> "extract", left |-> 0, top |-> 0,
                       width |-> width,
                       height |-> Max(1, height - cropValue)]>>)
      [] edge = "left" ->
           Returned(<<[call |-> "extract", left |-> cropValue, top |-> 0,
                       width |-> Max(1, width - cropValue),
                       height |-> height]>>)
      [] edge = "right" ->
           Returned(<<[call |-> "extract", left |-> 0, top |-> 0,
                       width |-> Max(1, width - cropValue),
                       height |-> height]>>)
      [] OTHER -> Threw("Unknown crop edge")

\* The pixel value is preferred to the percentage when both are given.
ApplyCropValueFirst(operation, metadata) ==
    LET imgWidth  == Get(metadata, "width", 0)
        imgHeight == Get(metadata, "height", 0)
    IN  IF imgWidth = 0 \/ imgHeight = 0
        THEN Threw("Image dimensions are required for cropping")
        ELSE IF /\ Has(operation, "left") /\ Has(operation, "top")
                /\ Has(operation, "width") /\ Has(operation, "height")
        THEN Returned(<<[call |-> "extract", left |-> operation.left,
                         top |-> operation.top, width |-> operation.width,
                         height |-> operation.height]>>)
        ELSE IF /\ TruthyString(operation, "gravity") /\ Truthy(operation, "width")
                /\ Truthy(operation, "height")
        THEN Returned(<<[call |-> "resize", width |-> operation.width,
                         height |-> operation.height, fit |-> "cover",
                         position |-> GravityToPosition(operation.gravity)]>>)
        ELSE IF /\ TruthyString(operation, "edge")
                /\ (Has(operation, "value") \/ Has(operation, "percent"))
        THEN LET cropValue ==
                   IF Has(operation, "value")
                   THEN operation.value
                   ELSE CalculatePercentCrop(operation.edge, operation.percent,
                                             imgWidth, imgHeight)
             IN  ApplyCropFromEdge(operation.edge, cropValue, imgWidth, imgHeight)
        ELSE Threw("Invalid crop operation")

\* presets.ts 78-122: applyCrop
ApplyCrop(operation, metadata) ==
    LET imgWidth  == Get(metadata, "width", 0)
        imgHeight == Get(metadata, "height", 0)
    IN  IF imgWidth = 0 \/ imgHeight = 0
        THEN Threw("Image dimensions are required for cropping")
        ELSE IF /\ Has(operation, "left") /\ Has(operation, "top")
                /\ Has(operation, "width") /\ Has(operation, "height")
        THEN Returned(<<[call |-> "extract", left |-> operation.left,
                         top |-> operation.top, width |-> operation.width,
                         height |-> operation.height]>>)
        ELSE IF /\ TruthyString(operation, "gravity") /\ Truthy(operation, "width")
                /\ Truthy(operation, "height")
        THEN Returned(<<[call |-> "resize", width |-> operation.width,
                         height |-> operation.height, fit |-> "cover",
                         position |-> GravityToPosition(operation.gravity)]>>)
        ELSE IF /\ TruthyString(operation, "edge")
                /\ (Has(operation, "value") \/ Has(operation, "percent"))
        THEN LET cropValue ==
                   IF Has(operation, "percent")
                   THEN CalculatePercentCrop(operation.edge, operation.percent,
                                             imgWidth, imgHeight)
                   ELSE Get(operation, "value", 0)
             IN  ApplyCropFromEdge(operation.edge, cropValue, imgWidth, imgHeight)
        ELSE Threw("Invalid crop operation")

\* pipeline.ts 271-346: applyResize
ApplyResize(operation) ==
    LET mode    == Get(operation, "mode", Undefined)
        options == [kernel |-> Get(operation, "kernel", "lanczos3"),
                    withoutEnlargement |-> Get(operation, "noUpscale", FALSE)]
        Resize(fields) == Returned(<<[call |-> "resize"] @@ fields @@ options>>)
    IN  CASE mode = "width" ->
               IF ~Truthy(operation, "width")
               THEN Threw("Width is required for width mode")
               ELSE Resize([width |-> operation.width])
          [] mode = "height" ->
               IF ~Truthy(operation, "height")
               THEN Threw("Height is required for height mode")
               ELSE Resize([height |-> operation.height])
          [] mode = "contain" ->
               IF ~Truthy(operation, "width") \/ ~Truthy(operation, "height")
               THEN Threw("Both width and height are required for contain mode")
               ELSE Resize([width |-> operation.width,
                            height |-> operation.height, fit |-> "inside"])
          [] mode = "cover" ->
               IF ~Truthy(operation, "width") \/ ~Truthy(operation, "height")
               THEN Threw("Both width and height are required for cover mode")
               ELSE Resize([width |-> operation.width,
                            height |-> operation.height, fit |-> "cover"])
          [] mode = "exact" ->
               IF ~Truthy(operation, "width") \/ ~Truthy(operation, "height")
               THEN Threw("Both width and height are required for exact mode")
               ELSE Resize([width |-> operation.width,
                            height |-> operation.height,
                            fit |-> IF TruthyString(operation, "fit")
                                    THEN operation.fit ELSE "fill"])
          [] OTHER -> Threw("Unknown resize mode")

\* convertFormat.ts 16: quality = 85
DefaultQuality == 85

\* convertFormat.ts 46: effort when no speed is given
DefaultEffort == 5

\* A format the encoder does not know silently becomes PNG.
ApplyConvertFallsBack(operation) ==
    Returned(<<[call |-> "png", quality |-> Get(operation, "quality", DefaultQuality),
                compressionLevel |-> 9, progressive |-> FALSE]>>)

\* convertFormat.ts 12-59: applyConvert
ApplyConvert(operation) ==
    LET format  == Get(operation, "format", Undefined)
        quality == Get(operation, "quality", DefaultQuality)
    IN  CASE format \in {"jpg", "jpeg"} ->
               Returned(<<[call |-> "jpeg", quality |-> quality,
                           progressive |-> Get(operation, "progressive", FALSE),
                           chromaSubsampling |->
                               Get(operation, "chromaSubsampling", "4:2:0"),
                           mozjpeg |-> TRUE]>>)
          [] format = "png" ->
               Returned(<<[call |-> "png", quality |-> quality,
                           compressionLevel |-> 9,
                           progressive |->
                               Get(operation, "progressive", FALSE)]>>)
          [] format = "webp" ->
               Returned(<<[call |-> "webp", quality |-> quality,
                           lossless |-> Get(operation, "lossless", FALSE),
                           nearLossless |-> FALSE,
                           smartSubsample |-> TRUE]>>)
          [] format = "avif" ->
               Returned(<<[call |-> "avif",
                           quality |-> Get(operation, "cq", quality),
                           effort |-> IF Has(operation, "speed")
                                      THEN 9 - operation.speed
                                      ELSE DefaultEffort,
                           chromaSubsampling |->
                               Get(operation, "chromaSubsampling", "4:2:0")]>>)
          [] format = "tiff" ->
               Returned(<<[call |-> "tiff", quality |-> quality,
                           compression |-> "jpeg"]>>)
          [] OTHER -> Threw("Unsupported output format")

\* convertFormat.ts 64-77: getExtensionForFormat
GetExtensionForFormat(format) ==
    IF format \in {"jpg", "jpeg"} THEN "jpg" ELSE format

\* =========================================================== processImage
ImageFiles ==
    {[path |-> "in/a.jpg", dir |-> "in", name |-> "a", ext |-> "jpg",
      width |-> 8, height |-> 4, format |-> "jpeg", size |-> 3],
     [path |-> "in/b.png", dir |-> "in", name |-> "b", ext |-> "png",
      width |-> 4, height |-> 4, format |-> "png", size |-> 2]}

\* Operations a descriptor can hold: well-formed ones, one of each kind that
\* fails when applied, and one with a tag processImage does not know.
ImageOps ==
    {[op |-> "metadata", strip |-> TRUE],
     [op |-> "crop", edge |-> "top", value |-> 1],
     [op |-> "crop", edge |-> "bottom", percent |-> 50],
     [op |-> "crop"],
     [op |-> "resize", mode |-> "width", width |-> 4],
     [op |-> "resize", mode |-> "contain", width |-> 4],
     [op |-> "convert", format |-> "webp"],
     [op |-> "convert", format |-> "jpg", quality |-> 50],
     [op |-> "convert", format |-> "heic"],
     [op |-> "sharpen"]}

ImagePipelines == UNION {[1..n -> ImageOps] : n \in 0..MaxOps}

\* Two worked examples: a photograph made 1024 wide and re-encoded, and a
\* square image cropped at the top and then fitted into 800 x 800.
Scenarios ==
    {[file |-> [path |-> "in/photo.jpg", dir |-> "in", name |-> "photo",
                ext |-> "jpg", width |-> 4032, height |-> 3024,
                format |-> "jpeg", size |-> 3],
      pipeline |-> <<[op |-> "resize", mode |-> "width", width |-> 1024,
                      noUpscale |-> TRUE],
                     [op |-> "convert", format |-> "jpg", quality |-> 85]>>],
     [file |-> [path |-> "in/square.png", dir |-> "in", name |-> "square",
                ext |-> "png", width |-> 2000, height |-> 2000,
                format |-> "png", size |-> 3],
      pipeline |-> <<[op |-> "crop", edge |-> "top", value |-> 200],
                     [op |-> "resize", mode |-> "contain", width |-> 800,
                      height |-> 800]>>]}

\* The sizes stat reports for an output file.
OutputSizes == 1..2

\* sharp's metadata() reads the header of the instance's input; the calls
\* queued on the instance do not change what it reports.
SharpMetadata(file, image) ==
    [width |-> file.width, height |-> file.height, format |-> file.format]

\* presets.ts 209: sharp rejects an extract whose region is not inside the
\* image.
SharpExtractFails(size, call) ==
    \/ call.width < 1 \/ call.height < 1
    \/ call.left < 0 \/ call.top < 0
    \/ call.left + call.width > size.width
    \/ call.top + call.height > size.height

\* What a queued resize call makes of an image of the given size: one
\* dimension given keeps the aspect ratio, fit inside scales by the smaller
\* ratio, cover and fill give the box; withoutEnlargement never enlarges.
SharpResizeSize(size, call) ==
    LET W == size.width
        H == size.height
        noEnlarge == Get(call, "withoutEnlargement", FALSE)
        target ==
            IF ~Has(call, "height")
            THEN [width |-> call.width,
                  height |-> Max(1, RoundDiv(H * call.width, W))]
            ELSE IF ~Has(call, "width")
            THEN [width |-> Max(1, RoundDiv(W * call.height, H)),
                  height |-> call.height]
            ELSE IF Get(call, "fit", "cover") = "inside"
            THEN IF call.width * H <= call.height * W
                 THEN [width |-> call.width,
                       height |-> Max(1, RoundDiv(H * call.width, W))]
                 ELSE [width |-> Max(1, RoundDiv(W * call.height, H)),
                       height |-> call.height]
            ELSE [width |-> call.width, height |-> call.height]
    IN  IF noEnlarge /\ (target.width > W \/ target.height > H)
        THEN [width |-> Min(W, target.width), height |-> Min(H, target.height)]
        ELSE target

\* What one queued call makes of an image of the given size.
SharpCallSize(size, call) ==
    CASE call.call = "extract" -> [width |-> call.width, height |-> call.height]
      [] call.call = "resize"  -> SharpResizeSize(size, call)
      [] OTHER -> size

\* The size of the pixels after the first n of the calls queued on the
\* instance have taken effect on the input file.
RECURSIVE SharpSizeAfter(_, _, _)
SharpSizeAfter(file, calls, n) ==
    IF n = 0
    THEN [width |-> file.width, height |-> file.height]
    ELSE SharpCallSize(SharpSizeAfter(file, calls, n - 1), calls[n])

\* toFile fails when one of the queued extract calls asks for a region that
\* is not inside the image it is applied to.
SharpRejects(file, calls) ==
    \E n \in 1..Len(calls) :
       /\ calls[n].call = "extract"
       /\ SharpExtractFails(SharpSizeAfter(file, calls, n - 1), calls[n])

\* sharp writes the input's EXIF, ICC, XMP and IPTC data to the output when
\* withMetadata has been called on the instance, with whatever options, and
\* discards them when it has not.
SharpKeepsMetadata(calls) ==
    \E n \in 1..Len(calls) : calls[n].call = "withMetadata"

\* sharp's encoders, as the calls that select them.
FormatCalls == {"jpeg", "png", "webp", "avif", "tiff"}

\* toFile without an encoder selected: the format is inferred from the
\* extension of the output file, the input's format when it says nothing.
SharpFormatOfExtension(ext, inputFormat) ==
    CASE ext \in {"jpg", "jpeg"} -> "jpeg"
      [] ext \in {"png", "webp", "avif", "tiff"} -> ext
      [] OTHER -> inputFormat

\* The encoder toFile uses and its options: those of the last encoder call
\* queued on the instance, else the encoder of the extension with no options.
SharpOutputEncoding(file, calls, path) ==
    LET selected == {i \in 1..Len(calls) : calls[i].call \in FormatCalls}
    IN  IF selected = {}
        THEN [call |-> SharpFormatOfExtension(path.ext, file.format)]
        ELSE calls[CHOOSE i \in selected : \A k \in selected : k <= i]

\* An output pattern is its text before the extension and the extension it
\* spells out, if any; NoPattern stands for a descriptor without one.
NoPattern == [given |-> FALSE]
OutputPatterns ==
    {NoPattern,
     [given |-> TRUE, stem |-> "{base}_processed", dotted |-> TRUE,
      ext |-> "jpg"],
     [given |-> TRUE, stem |-> "{base}_small", dotted |-> FALSE]}

\* pipeline.ts 161-202: buildOutputPath.  The file name is kept as its parts;
\* ext is what follows its last dot.
BuildOutputPath(file, outputDir, pattern, outputFormat, width, height) ==
    LET outDir == IF outputDir # Undefined THEN outputDir ELSE file.dir
        format == IF outputFormat # Undefined THEN outputFormat ELSE file.ext
        ext    == GetExtensionForFormat(format)
    IN  IF pattern.given
        THEN IF pattern.dotted
             THEN [dir |-> outDir, filename |-> <<file.name, pattern.stem>>,
                   ext |-> pattern.ext]
             ELSE [dir |-> outDir, filename |-> <<file.name, pattern.stem>>,
                   ext |-> ext]
        ELSE [dir |-> outDir,
              filename |-> <<file.name, "_", width, "x", height>>,
              ext |-> ext]

\* pipeline.ts 106-116
ProcessingSuccess(inputPath, outputPath, inputSize, outputSize, width, height, format, duration) ==
    [state |-> "fulfilled",
     value |-> [inputPath |-> inputPath, outputPath |-> outputPath,
                success |-> TRUE, inputSize |-> inputSize,
                outputSize |-> outputSize, width |-> width, height |-> height,
                format |-> format, duration |-> duration]]

\* A catch block that rethrows: the promise rejects.
CatchBlockRethrows(inputPath, error, duration) ==
    [state |-> "rejected", value |-> error]

\* pipeline.ts 117-125
CatchBlock(inputPath, error, duration) ==
    [state |-> "fulfilled",
     value |-> [inputPath |-> inputPath, success |-> FALSE, error |-> error,
                duration |-> duration]]

\* An exception inside the try block: the catch block makes the result.
ImgCatch(error) ==
    /\ iresult' = CatchBlock(ifile.path, error, iclock' - istart)
    /\ ithrown' = error
    /\ ipc' = "returned"

\* pipeline.ts 52-80: what one iteration's switch does to the operation.
OperationEffect(operation, metadata) ==
    LET tag == Get(operation, "op", Undefined)
    IN  CASE tag = "metadata" ->
               ApplyMetadata(operation) @@ [requery |-> FALSE, format |-> FALSE]
          [] tag = "crop" ->
               ApplyCrop(operation, metadata)
                   @@ [requery |-> TRUE, format |-> FALSE]
          [] tag = "resize" ->
               ApplyResize(operation) @@ [requery |-> TRUE, format |-> FALSE]
          [] tag = "convert" ->
               ApplyConvert(operation) @@ [requery |-> FALSE, format |-> TRUE]
          [] OTHER ->
               Returned(<<>>) @@ [requery |-> FALSE, format |-> FALSE]

\* The for-of loop skips every other operation.
NextOperationSkips(j) == j + 2

\* pipeline.ts 51: the for-of loop moves to the next element.
NextOperation(j) == j + 1

\* pipeline.ts 32-37: startTime, then await stat(inputPath)
ImgStatInput ==
    /\ ipc = "stat"
    /\ iclock' = iclock + 1
    /\ \E ok \in BOOLEAN :
         IF ok
         THEN /\ isize' = ifile.size
              /\ ipc' = "metadata"
              /\ UNCHANGED <<iresult, ithrown>>
         ELSE /\ ImgCatch("ENOENT: no such file (input)")
              /\ UNCHANGED isize
    /\ UNCHANGED <<ifile, idir, ipattern, ipipe, ij, imeta, iimage, ifmt, iw, ih, ipath,
                   ifs, istart, ilog>>
    /\ UNCHANGED notImageVars

\* pipeline.ts 40-48: await getImageMetadata(inputPath), sharp(inputPath)
ImgGetMetadata ==
    /\ ipc = "metadata"
    /\ iclock' = iclock + 1
    /\ \E ok \in BOOLEAN :
         IF ok
         THEN /\ imeta' = SharpMetadata(ifile, <<>>)
              /\ iw' = imeta'.width
              /\ ih' = imeta'.height
              /\ ipc' = "loop"
              /\ UNCHANGED <<iresult, ithrown>>
         ELSE /\ ImgCatch("Input file contains unsupported image format")
              /\ UNCHANGED <<imeta, iw, ih>>
    /\ UNCHANGED <<ifile, idir, ipattern, ipipe, ij, iimage, ifmt, isize, ipath, ifs,
                   istart, ilog>>
    /\ UNCHANGED notImageVars

\* pipeline.ts 51-81: one iteration of the loop over pipeline.pipeline
ImgApplyOperation ==
    /\ ipc = "loop"
    /\ ij < Len(ipipe)
    /\ iclock' = iclock + 1
    /\ ilog' = Append(ilog, [event |-> "operation", index |-> ij])
    /\ LET operation == ipipe[ij + 1]
           effect    == OperationEffect(operation, imeta)
       IN  /\ ifmt' = IF effect.format
                      THEN Get(operation, "format", Undefined) ELSE ifmt
           /\ IF effect.threw
              THEN /\ ImgCatch(effect.error)
                   /\ UNCHANGED <<ij, imeta, iimage, iw, ih>>
              ELSE /\ iimage' = iimage \o effect.calls
                   /\ \E ok \in (IF effect.requery THEN BOOLEAN ELSE {TRUE}) :
                        IF ok
                        THEN /\ imeta' = IF effect.requery
                                         THEN SharpMetadata(ifile, iimage')
                                         ELSE imeta
                             /\ iw' = imeta'.width
                             /\ ih' = imeta'.height
                             /\ ij' = NextOperation(ij)
                             /\ ipc' = "loop"
                             /\ UNCHANGED <<iresult, ithrown>>
                        ELSE /\ ImgCatch("Input file is missing (metadata)")
                             /\ UNCHANGED <<ij, imeta, iw, ih>>
    /\ UNCHANGED <<ifile, idir, ipattern, ipipe, isize, ipath, ifs, istart>>
    /\ UNCHANGED notImageVars

\* pipeline.ts 84-95: the loop is over; buildOutputPath, which throws when
\* the pattern is no string, then ensureDirectoryExists is called.
ImgResolveOutput ==
    /\ ipc = "loop"
    /\ ~(ij < Len(ipipe))
    /\ iclock' = iclock + 1
    /\ \E ok \in BOOLEAN :
         IF ok
         THEN /\ ipath' = BuildOutputPath(ifile, idir, ipattern, ifmt, iw, ih)
              /\ ipc' = "mkdir"
              /\ UNCHANGED <<iresult, ithrown>>
         ELSE /\ ImgCatch("filename.replace is not a function")
              /\ UNCHANGED ipath
    /\ UNCHANGED <<ifile, idir, ipattern, ipipe, ij, imeta, iimage, ifmt, iw, ih, isize,
                   ifs, istart, ilog>>
    /\ UNCHANGED notImageVars

\* pipeline.ts 95: await ensureDirectoryExists(path.dirname(outputPath))
ImgEnsureDirectory ==
    /\ ipc = "mkdir"
    /\ iclock' = iclock + 1
    /\ \E ok \in BOOLEAN :
         IF ok
         THEN ipc' = "toFile" /\ UNCHANGED <<iresult, ithrown>>
         ELSE ImgCatch("EACCES: permission denied (mkdir)")
    /\ UNCHANGED <<ifile, idir, ipattern, ipipe, ij, imeta, iimage, ifmt, iw, ih, isize,
                   ipath, ifs, istart, ilog>>
    /\ UNCHANGED notImageVars

\* pipeline.ts 98: await image.toFile(outputPath)
ImgToFile ==
    /\ ipc = "toFile"
    /\ iclock' = iclock + 1
    /\ \E ok \in (IF SharpRejects(ifile, iimage) THEN {FALSE} ELSE BOOLEAN) :
         IF ok
         THEN /\ ifs' = ifs \cup {ipath}
              /\ ilog' = Append(ilog, [event |-> "write"])
              /\ ipc' = "statOut"
              /\ UNCHANGED <<iresult, ithrown>>
         ELSE /\ ImgCatch("toFile failed")
              /\ UNCHANGED <<ifs, ilog>>
    /\ UNCHANGED <<ifile, idir, ipattern, ipipe, ij, imeta, iimage, ifmt, iw, ih, isize,
                   ipath, istart>>
    /\ UNCHANGED notImageVars

\* pipeline.ts 101-116: await stat(outputPath), then the success result
ImgStatOutput ==
    /\ ipc = "statOut"
    /\ iclock' = iclock + 1
    /\ \E ok \in BOOLEAN, outputSize \in OutputSizes :
         IF ok
         THEN /\ iresult' = ProcessingSuccess(ifile.path, ipath, isize,
                                outputSize, iw, ih,
                                IF ifmt # Undefined THEN ifmt ELSE imeta.format,
                                iclock' - istart)
              /\ ipc' = "returned"
              /\ UNCHANGED ithrown
         ELSE ImgCatch("ENOENT: no such file (output)")
    /\ UNCHANGED <<ifile, idir, ipattern, ipipe, ij, imeta, iimage, ifmt, iw, ih, isize,
                   ipath, ifs, istart, ilog>>
    /\ UNCHANGED notImageVars

BatchIdle ==
    /\ impl = "none" /\ inputs = <<>> /\ concurrency = 0 /\ bpc = "idle"
    /\ bi = 0 /\ queue = <<>> /\ runs = <<>> /\ promises = <<>>
    /\ finished = <<>> /\ results = <<>> /\ completed = 0
    /\ wasmInitialized = FALSE

InitImage ==
    /\ BatchIdle
    /\ EntryIdle
    /\ CallIdle
    /\ WasmInitIdle
    /\ cancelled = FALSE
    /\ idir \in {Undefined, "out"}
    /\ ipattern \in OutputPatterns
    /\ \/ ifile \in ImageFiles /\ ipipe \in ImagePipelines
       \/ \E scenario \in Scenarios :
             ifile = scenario.file /\ ipipe = scenario.pipeline
    /\ ipc = "stat"
    /\ ij = 0
    /\ imeta = Undefined /\ iimage = <<>> /\ ifmt = Undefined
    /\ iw = Undefined /\ ih = Undefined /\ isize = Undefined
    /\ ipath = Undefined /\ ifs = {} /\ iresult = Pending
    /\ istart \in 0..1 /\ iclock = istart
    /\ ithrown = Undefined /\ ilog = <<>>

NextImage ==
    \/ ImgStatInput
    \/ ImgGetMetadata
    \/ ImgApplyOperation
    \/ ImgResolveOutput
    \/ ImgEnsureDirectory
    \/ ImgToFile
    \/ ImgStatOutput

SpecImage == InitImage /\ [][NextImage]_vars

\* C5: processImage never rejects: an exception at any step (stat of the
\* input, metadata, an operation, the output path, mkdir, the write, stat of
\* the output) ends the run with a returned outcome that has success = false,
\* the error's description, the elapsed time and no outputPath.
C5_NeverRejects ==
    /\ iresult.state # "rejected"
    /\ ithrown # Undefined =>
         /\ ipc = "returned"
         /\ iresult.state = "fulfilled"
         /\ iresult.value.success = FALSE
         /\ iresult.value.error = ithrown
         /\ iresult.value.duration = iclock - istart
         /\ iresult.value.inputPath = ifile.path
         /\ ~Has(iresult.value, "outputPath")

\* The last step fails: the output was written, stat-ing it throws.
C5_Witness ==
    /\ ithrown = "ENOENT: no such file (output)"
    /\ ifs # {}
    /\ Len(ipipe) = 2
    /\ ipipe[1].op = "crop"
    /\ ipipe[2].op = "convert"
    /\ iresult.state = "fulfilled"
    /\ ~iresult.value.success

\* The operations the claim C6 names as failing: a crop with no resolvable
\* scheme, a resize without a dimension its mode needs, a convert to a format
\* that cannot be encoded.
FailsWhenApplied(operation) ==
    LET tag  == Get(operation, "op", Undefined)
        mode == Get(operation, "mode", Undefined)
    IN  \/ /\ tag = "crop"
           /\ ~(/\ Has(operation, "left") /\ Has(operation, "top")
                /\ Has(operation, "width") /\ Has(operation, "height"))
           /\ ~(/\ Has(operation, "gravity") /\ Truthy(operation, "width")
                /\ Truthy(operation, "height"))
           /\ ~(/\ Has(operation, "edge")
                /\ (Has(operation, "value") \/ Has(operation, "percent")))
        \/ /\ tag = "resize"
           /\ \/ /\ mode \in {"width", "contain", "cover", "exact"}
                 /\ ~Truthy(operation, "width")
              \/ /\ mode \in {"height", "contain", "cover", "exact"}
                 /\ ~Truthy(operation, "height")
        \/ /\ tag = "convert"
           /\ Get(operation, "format", Undefined)
                  \notin {"jpg", "jpeg", "png", "webp", "avif", "tiff"}

\* The error each kind of operation reports.
ErrorsOf(operation) ==
    CASE operation.op = "crop"    -> {"Invalid crop operation"}
      [] operation.op = "convert" -> {"Unsupported output format"}
      [] operation.op = "resize"  ->
           {"Width is required for width mode",
            "Height is required for height mode",
            "Both width and height are required for contain mode",
            "Both width and height are required for cover mode",
            "Both width and height are required for exact mode"}

\* C6: when operation K is the first that fails, the run never goes past
\* K (operations K+1..N are not applied), writes no output file, and once
\* operation K has been tried the outcome is a failure with that operation's
\* error.
C6_FailedOperationStopsRun ==
    \A K \in 0..(Len(ipipe) - 1) :
        (/\ FailsWhenApplied(ipipe[K + 1])
         /\ \A J \in 0..(K - 1) : ~FailsWhenApplied(ipipe[J + 1]))
        => /\ ij <= K
           /\ \A n \in 1..Len(ilog) :
                  ilog[n].event = "operation" /\ ilog[n].index <= K
           /\ ifs = {}
           /\ ipath = Undefined
           /\ (Len(ilog) = K + 1) =>
                 /\ ipc = "returned"
                 /\ iresult.state = "fulfilled"
                 /\ iresult.value.success = FALSE
                 /\ iresult.value.error \in ErrorsOf(ipipe[K + 1])
                 /\ ~Has(iresult.value, "outputPath")

\* The first of two operations fails: the second is never applied.
C6_Witness ==
    /\ Len(ipipe) = 2
    /\ FailsWhenApplied(ipipe[1])
    /\ ~FailsWhenApplied(ipipe[2])
    /\ ipipe[2].op = "crop"
    /\ ipc = "returned"
    /\ ilog = <<[event |-> "operation", index |-> 0]>>
    /\ iresult.value.error = "Unsupported output format"

\* C7: the operations are applied strictly in array order, one at a time,
\* none skipped or repeated, and the output is written only after the last.
C7_OperationsInOrder ==
    /\ Len(ilog) <= Len(ipipe) + 1
    /\ \A n \in 1..Len(ilog) :
          IF n <= Len(ipipe)
          THEN ilog[n] = [event |-> "operation", index |-> n - 1]
          ELSE ilog[n] = [event |-> "write"]
    /\ ipc \in {"mkdir", "toFile", "statOut"} => Len(ilog) >= Len(ipipe)
    /\ ifs # {} => Len(ilog) = Len(ipipe) + 1

\* A run of two operations that wrote its output.
C7_Witness ==
    /\ Len(ipipe) = 2
    /\ ipipe[1].op = "crop"
    /\ ipipe[2].op = "resize"
    /\ ipc = "returned"
    /\ iresult.value.success
    /\ ilog = <<[event |-> "operation", index |-> 0],
                [event |-> "operation", index |-> 1], [event |-> "write"]>>

\* ======================================================== validatePipeline
\* Violation messages are tuples: the text, then what the template fills in.
MustContainOperation == <<"Pipeline must contain at least one operation">>
MustHaveOp           == <<"Each operation must have an op field">>
ResizeRequiresMode   == <<"Resize operation requires mode field">>
ResizeRequiresWidth(mode)  == <<"Resize mode requires width field", mode>>
ResizeRequiresHeight(mode) == <<"Resize mode requires height field", mode>>
ConvertRequiresFormat == <<"Convert operation requires format field">>
UnknownOperation(tag) == <<"Unknown operation type", tag>>

\* The height rule is applied to the height mode only.
OperationViolationsHeightModeOnly(operation) ==
    LET tag  == Get(operation, "op", Undefined)
        mode == Get(operation, "mode", Undefined)
    IN  IF ~TruthyString(operation, "op")
        THEN <<MustHaveOp>>
        ELSE CASE tag = "resize" ->
                    (IF ~TruthyString(operation, "mode")
                     THEN <<ResizeRequiresMode>> ELSE <<>>)
                 \o (IF /\ mode \in {"width", "contain", "cover", "exact"}
                        /\ ~Truthy(operation, "width")
                     THEN <<ResizeRequiresWidth(mode)>> ELSE <<>>)
                 \o (IF /\ mode \in {"height"}
                        /\ ~Truthy(operation, "height")
                     THEN <<ResizeRequiresHeight(mode)>> ELSE <<>>)
               [] tag = "convert" ->
                    IF ~TruthyString(operation, "format")
                    THEN <<ConvertRequiresFormat>> ELSE <<>>
               [] tag \in {"crop", "metadata"} -> <<>>
               [] OTHER -> <<UnknownOperation(tag)>>

\* pipeline.ts 215-251: the body of the loop, for one operation.
OperationViolations(operation) ==
    LET tag  == Get(operation, "op", Undefined)
        mode == Get(operation, "mode", Undefined)
    IN  IF ~TruthyString(operation, "op")
        THEN <<MustHaveOp>>
        ELSE CASE tag = "resize" ->
                    (IF ~TruthyString(operation, "mode")
                     THEN <<ResizeRequiresMode>> ELSE <<>>)
                 \o (IF /\ mode \in {"width", "contain", "cover", "exact"}
                        /\ ~Truthy(operation, "width")
                     THEN <<ResizeRequiresWidth(mode)>> ELSE <<>>)
                 \o (IF /\ mode \in {"height", "contain", "cover", "exact"}
                        /\ ~Truthy(operation, "height")
                     THEN <<ResizeRequiresHeight(mode)>> ELSE <<>>)
               [] tag = "convert" ->
                    IF ~TruthyString(operation, "format")
                    THEN <<ConvertRequiresFormat>> ELSE <<>>
               [] tag \in {"crop", "metadata"} -> <<>>
               [] OTHER -> <<UnknownOperation(tag)>>

\* The loop gives up at the first operation that has a violation.
RECURSIVE ValidateLoopStopsAtFirst(_, _, _)
ValidateLoopStopsAtFirst(operations, n, errors) ==
    IF n > Len(operations) \/ errors # <<>>
    THEN errors
    ELSE ValidateLoopStopsAtFirst(operations, n + 1,
             errors \o OperationViolations(operations[n]))

\* pipeline.ts 214-252: the loop over the operations, from the n-th on.
RECURSIVE ValidateLoop(_, _, _)
ValidateLoop(operations, n, errors) ==
    IF n > Len(operations)
    THEN errors
    ELSE ValidateLoop(operations, n + 1,
             errors \o OperationViolations(operations[n]))

\* pipeline.ts 207-258: validatePipeline.  Iterating a pipeline field that is
\* absent throws a TypeError, after the first check has pushed its error.
ValidatePipeline(descriptor) ==
    LET first == IF ~Has(descriptor, "pipeline")
                 THEN <<MustContainOperation>>
                 ELSE IF Len(descriptor.pipeline) = 0
                 THEN <<MustContainOperation>> ELSE <<>>
    IN  IF ~Has(descriptor, "pipeline")
        THEN Threw(<<"TypeError: pipeline.pipeline is not iterable">>)
        ELSE LET errors == ValidateLoop(descriptor.pipeline, 1, first)
             IN  [threw |-> FALSE, valid |-> Len(errors) = 0,
                  errors |-> errors]

\* ============================================================ entry points
\* Operations a descriptor that arrives as JSON can hold.
DescriptorOps ==
    {[op |-> "resize", mode |-> "width", width |-> 4],
     [op |-> "resize", mode |-> "width"],
     [op |-> "resize", mode |-> "contain"],
     [op |-> "resize", width |-> 4],
     [op |-> "resize", mode |-> "height", height |-> 0],
     [op |-> "resize", mode |-> "cover", width |-> 4],
     [op |-> "resize", mode |-> "exact", height |-> 4],
     [op |-> "resize", mode |-> "contain", width |-> 4, height |-> 4],
     [op |-> "crop", edge |-> "top"],
     [op |-> "convert", format |-> "jpg"],
     [op |-> "convert"],
     [op |-> "crop"],
     [op |-> "metadata"],
     [op |-> "sharpen"],
     [mode |-> "width"]}

\* Descriptor objects: with a pipeline array of any length, or without one.
Descriptors ==
    {[name |-> "recipe", pipeline |-> ops] :
        ops \in UNION {[1..n -> DescriptorOps] : n \in 0..MaxOps}}
    \cup {[name |-> "recipe"]}

\* The descriptor's source: a config or preset file (CLI), the request's
\* pipeline field (server): JSON of a descriptor, text that is no JSON (or a
\* file that cannot be read), or nothing at all.
Sources ==
    {[kind |-> "json", value |-> d] : d \in Descriptors}
    \cup {[kind |-> "garbage"], [kind |-> "absent"]}

\* index.ts 94, 152: the default when the request has no pipeline field
DefaultDescriptor == [pipeline |-> <<>>]

\* part_007 143-197: buildPipelineFromArgs when no operation option is given
BuiltFromArgs == [pipeline |-> <<[op |-> "metadata"]>>]

\* index.ts 53, 206: express.json leaves an empty object for a missing body
EmptyBody == [f \in {} |-> Undefined]

NotValidated == [called |-> FALSE]
NothingSent  == [sent |-> FALSE]

Finish(out) == eout' = out /\ epc' = "done"

\* part_008 39-52, index.ts 89-94, 147-152, 206: the descriptor is obtained.
EntryLoad ==
    /\ epc = "load"
    /\ IF entry \in {"process", "process-batch"} /\ eargs.nfiles = 0
       THEN /\ Finish([status |-> 400, error |-> "No image file provided"])
            /\ UNCHANGED edesc
       ELSE CASE esource.kind = "json" ->
                   edesc' = esource.value /\ epc' = "validate" /\ UNCHANGED eout
              [] esource.kind = "absent" ->
                   /\ edesc' = CASE entry = "cli" -> BuiltFromArgs
                                  [] entry = "validate" -> EmptyBody
                                  [] OTHER -> DefaultDescriptor
                   /\ epc' = "validate"
                   /\ UNCHANGED eout
              [] esource.kind = "garbage" ->
                   /\ UNCHANGED edesc
                   /\ IF entry = "cli"
                      THEN Finish([exit |-> 1, fatal |-> TRUE,
                                   logged |-> <<<<"Failed to load preset">>>>])
                      ELSE Finish([status |-> 500,
                                   error |-> "Failed to process image",
                                   details |-> <<<<"SyntaxError">>>>])
    /\ UNCHANGED <<entry, esource, eargs, evalidation, ecalled, eresults,
                   efs, euploads>>
    /\ UNCHANGED notEntryVars

\* part_008 54-60, 129-132; index.ts 96-101, 133-139, 154-159, 192-198,
\* 204-215: validatePipeline is called and its result acted upon.
EntryValidate ==
    /\ epc = "validate"
    /\ LET validation == ValidatePipeline(edesc)
       IN  /\ evalidation' = validation
           /\ IF validation.threw
              THEN CASE entry = "cli" ->
                          Finish([exit |-> 1, fatal |-> TRUE,
                                  logged |-> <<validation.error>>])
                     [] entry = "validate" ->
                          Finish([status |-> 400,
                                  error |-> "Invalid pipeline format",
                                  details |-> <<validation.error>>])
                     [] OTHER ->
                          Finish([status |-> 500,
                                  error |-> "Failed to process image",
                                  details |-> <<validation.error>>])
              ELSE IF entry = "validate"
              THEN Finish([status |-> 200, error |-> Undefined,
                           details |-> validation.errors])
              ELSE IF ~validation.valid
              THEN IF entry = "cli"
                   THEN Finish([exit |-> 1, fatal |-> FALSE,
                                logged |-> validation.errors])
                   ELSE Finish([status |-> 400, error |-> "Invalid pipeline",
                                details |-> validation.errors])
              ELSE epc' = "prepare" /\ UNCHANGED eout
    /\ UNCHANGED <<entry, esource, eargs, edesc, ecalled, eresults, efs,
                   euploads>>
    /\ UNCHANGED notEntryVars

\* The files of the run: uploads are written before a handler starts, outputs
\* and the output directory are what the handler itself creates.
OutputDirectory == <<"dir", 0>>
OutputOf(k) == <<"out", k>>
UploadOf(k) == <<"upload", k>>

\* part_008 62-85; index.ts 103-107, 161-165: what precedes the processing.
EntryPrepare ==
    /\ epc = "prepare"
    /\ IF entry = "cli"
       THEN CASE eargs.input = "missing" ->
                   /\ Finish([exit |-> 1, fatal |-> TRUE,
                              logged |-> <<<<"ENOENT">>>>])
                   /\ UNCHANGED efs
              [] eargs.input = "other" ->
                   /\ Finish([exit |-> 1, fatal |-> FALSE,
                              logged |-> <<<<"Input must be a file or directory">>>>])
                   /\ UNCHANGED efs
              [] eargs.nfiles = 0 ->
                   /\ Finish([exit |-> 0, fatal |-> FALSE,
                              logged |-> <<<<"No images found to process">>>>])
                   /\ UNCHANGED efs
              [] OTHER ->
                   epc' = "process" /\ UNCHANGED <<eout, efs>>
       ELSE \E ok \in BOOLEAN :
              IF ok
              THEN /\ efs' = efs \cup {OutputDirectory}
                   /\ epc' = "process"
                   /\ UNCHANGED eout
              ELSE /\ Finish([status |-> 500,
                              error |-> "Failed to process image",
                              details |-> <<<<"EACCES">>>>])
                   /\ UNCHANGED efs
    /\ UNCHANGED <<entry, esource, eargs, edesc, evalidation, ecalled,
                   eresults, euploads>>
    /\ UNCHANGED notEntryVars

\* part_008 101-106; index.ts 110-114, 169-174: the processing is invoked and
\* settles with one result per file, each a success or a failure.
EntryProcess ==
    /\ epc = "process"
    /\ ecalled' = TRUE
    /\ \E outcome \in [1..eargs.nfiles -> BOOLEAN] :
          /\ eresults' = outcome
          /\ efs' = efs \cup (IF entry = "cli" THEN {OutputDirectory} ELSE {})
                        \cup {OutputOf(k) : k \in {f \in 1..eargs.nfiles : outcome[f]}}
    /\ epc' = "finish"
    /\ UNCHANGED <<entry, esource, eargs, edesc, evalidation, eout, euploads>>
    /\ UNCHANGED notEntryVars

\* part_008 108-128; index.ts 116-132, 176-191: the results are reported.
EntryFinish ==
    /\ epc = "finish"
    /\ LET failed == {k \in 1..Len(eresults) : ~eresults[k]}
       IN  CASE entry = "cli" ->
                  /\ Finish([exit |-> IF failed # {} THEN 1 ELSE 0,
                             fatal |-> FALSE, logged |-> <<>>])
                  /\ UNCHANGED euploads
             [] entry = "process" ->
                  /\ euploads' = {}
                  /\ Finish([status |-> IF failed # {} THEN 500 ELSE 200,
                             error |-> IF failed # {} THEN "Processing failed"
                                       ELSE Undefined,
                             details |-> <<>>])
             [] OTHER ->
                  /\ euploads' = {}
                  /\ Finish([status |-> 200, error |-> Undefined,
                             details |-> <<>>])
    /\ UNCHANGED <<entry, esource, eargs, edesc, evalidation, ecalled,
                   eresults, efs>>
    /\ UNCHANGED notEntryVars

\* The invocations of the entry points: the CLI with a config or preset file
\* or neither, and the three POST routes.
EntryArgs ==
    {[nfiles |-> n, dryRun |-> d, input |-> k] :
        n \in 0..MaxFiles, d \in BOOLEAN,
        k \in {"file", "dir", "missing", "other"}}

InitEntry ==
    /\ BatchIdle
    /\ ImageIdle
    /\ CallIdle
    /\ WasmInitIdle
    /\ cancelled = FALSE
    /\ entry \in {"cli", "process", "process-batch", "validate"}
    /\ esource \in Sources
    /\ eargs \in EntryArgs
    /\ entry = "validate" => esource.kind # "garbage" /\ eargs.nfiles = 0
    /\ entry = "process" => eargs.nfiles <= 1
    /\ entry # "cli" => ~eargs.dryRun /\ eargs.input = "file"
    /\ entry = "cli" =>
          CASE eargs.input = "file" -> eargs.nfiles = 1
            [] eargs.input = "dir" -> TRUE
            [] OTHER -> eargs.nfiles = 0
    /\ epc = "load"
    /\ edesc = Undefined
    /\ evalidation = NotValidated
    /\ ecalled = FALSE
    /\ eresults = <<>>
    /\ eout = NothingSent
    /\ efs = {}
    /\ euploads = IF entry \in {"process", "process-batch"}
                  THEN {UploadOf(k) : k \in 1..eargs.nfiles} ELSE {}

NextEntry ==
    \/ EntryLoad
    \/ EntryValidate
    \/ EntryPrepare
    \/ EntryProcess
    \/ EntryFinish

SpecEntry == InitEntry /\ [][NextEntry]_vars

\* ------------------------------------------------------------------ claims
ValidationCalled == Has(evalidation, "threw")
ValidationReturned == ValidationCalled /\ ~evalidation.threw

\* What a finished run has reported: the CLI's log lines, the response's
\* details.
Reported(out) == IF Has(out, "logged") THEN out.logged ELSE out.details

\* The violations of the i-th operation start after those of the ones before.
RECURSIVE ViolationsBefore(_, _)
ViolationsBefore(operations, i) ==
    IF i <= 1 THEN 0
    ELSE ViolationsBefore(operations, i - 1)
         + Len(OperationViolations(operations[i - 1]))

\* errors lists, in operation order, every violation of every operation,
\* after the one entry for a pipeline without operations.
ListsAllViolations(descriptor, errors) ==
    LET operations == IF Has(descriptor, "pipeline")
                      THEN descriptor.pipeline ELSE <<>>
        head == IF Len(operations) = 0 THEN 1 ELSE 0
    IN  /\ Len(errors) = head + ViolationsBefore(operations, Len(operations) + 1)
        /\ head = 1 => errors[1] = MustContainOperation
        /\ \A i \in 1..Len(operations) :
              \A k \in 1..Len(OperationViolations(operations[i])) :
                 errors[head + ViolationsBefore(operations, i) + k]
                    = OperationViolations(operations[i])[k]

\* C8: an invalid descriptor is never run: the processing is invoked only
\* after validatePipeline returned valid = true, and a run of the CLI or of
\* a processing route whose validation failed ends with all the violations
\* reported, nothing processed and nothing written.
C8_InvalidNeverRun ==
    /\ ecalled => ValidationReturned /\ evalidation.valid
    /\ ( /\ epc = "done"
         /\ entry \in {"cli", "process", "process-batch"}
         /\ ValidationCalled
         /\ (evalidation.threw \/ ~evalidation.valid) )
       => /\ ListsAllViolations(edesc, Reported(eout))
          /\ ~ecalled
          /\ eresults = <<>>
          /\ efs = {}

\* C9: validatePipeline never throws: called on a descriptor, it returns,
\* and for a descriptor whose pipeline array is missing or empty what it
\* returns has valid = false and a non-empty errors list.
C9_ValidateReturns ==
    ValidationCalled =>
       /\ ~evalidation.threw
       /\ (~Has(edesc, "pipeline") \/ Len(edesc.pipeline) = 0)
             => ~evalidation.valid /\ evalidation.errors # <<>>

\* C10: what validatePipeline returns lists every violation of every
\* operation, in operation order, not only the first one, and valid is true
\* exactly when the list is empty.
C10_AllViolationsAtOnce ==
    ValidationReturned =>
       /\ ListsAllViolations(edesc, evalidation.errors)
       /\ evalidation.valid <=> (evalidation.errors = <<>>)

\* The validation has returned for a two-operation pipeline whose first
\* operation violates two rules and whose second violates one.
C10_Witness ==
    /\ ValidationReturned
    /\ Len(edesc.pipeline) = 2
    /\ Len(OperationViolations(edesc.pipeline[1])) = 2
    /\ Len(OperationViolations(edesc.pipeline[2])) = 1
    /\ Len(evalidation.errors) = 3
    /\ ~evalidation.valid

\* The rules as stated: a number or a name is supplied when the field is
\* there and is not 0 or empty.
SuppliesNumber(operation, f) == f \in DOMAIN operation /\ operation[f] >= 1
SuppliesName(operation, f) == f \in DOMAIN operation /\ operation[f] # ""
IsOp(operation, tag) == SuppliesName(operation, "op") /\ operation.op = tag

BreaksStatedRule(operation) ==
    \/ ~SuppliesName(operation, "op")
    \/ operation.op \notin {"resize", "convert", "crop", "metadata"}
    \/ /\ IsOp(operation, "resize")
       /\ SuppliesName(operation, "mode")
       /\ \/ /\ operation.mode \in {"width", "contain", "cover", "exact"}
             /\ ~SuppliesNumber(operation, "width")
          \/ /\ operation.mode \in {"height", "contain", "cover", "exact"}
             /\ ~SuppliesNumber(operation, "height")
    \/ IsOp(operation, "convert") /\ ~SuppliesName(operation, "format")

MeetsStatedRules(operation) ==
    \/ IsOp(operation, "crop")
    \/ IsOp(operation, "metadata")
    \/ IsOp(operation, "convert") /\ SuppliesName(operation, "format")
    \/ /\ IsOp(operation, "resize")
       /\ SuppliesName(operation, "mode")
       /\ operation.mode \in {"width", "contain", "cover", "exact"}
             => SuppliesNumber(operation, "width")
       /\ operation.mode \in {"height", "contain", "cover", "exact"}
             => SuppliesNumber(operation, "height")

RemovedBy(edge, call, size) ==
    CASE edge = "top"    -> call.top
      [] edge = "left"   -> call.left
      [] edge = "bottom" -> size.height - call.height
      [] edge = "right"  -> size.width - call.width

\* C12: a crop by edge and percent P executed by processImage removes
\* round(P/100 * D) pixels, D being the height (top, bottom) or width (left,
\* right) the image has when the crop runs, after the earlier operations of
\* the pipeline have taken effect.
C12_PercentOfActualSize ==
    ( /\ ipc = "loop"
      /\ ij >= 1
      /\ IsOp(ipipe[ij], "crop")
      /\ Has(ipipe[ij], "edge") /\ Has(ipipe[ij], "percent") )
    => LET operation == ipipe[ij]
           before == SharpSizeAfter(ifile, iimage, Len(iimage) - 1)
           actual == IF operation.edge \in {"top", "bottom"}
                     THEN before.height ELSE before.width
       IN  RemovedBy(operation.edge, iimage[Len(iimage)], before)
              = RoundDiv(operation.percent * actual, 100)

\* ====================================================== geometry functions
\* photon's crop(img, x1, y1, x2, y2): the pixels from (x1, y1) up to, not
\* including, (x2, y2).
PhotonCrop(x1, y1, x2, y2) == [width |-> x2 - x1, height |-> y2 - y1]

\* wasmImageProcessor.ts 98-137: applyCrop, on the image's size.
WasmApplyCrop(size, cropOptions) ==
    LET Wants(f) == Has(cropOptions, f) /\ cropOptions[f] > 0
        afterTop ==
            IF Wants("top")
            THEN PhotonCrop(0, Min(cropOptions.top, size.height - 1),
                            size.width, size.height)
            ELSE size
        afterBottom ==
            IF Wants("bottom")
            THEN PhotonCrop(0, 0, afterTop.width,
                            Max(1, afterTop.height - cropOptions.bottom))
            ELSE afterTop
        afterLeft ==
            IF Wants("left")
            THEN PhotonCrop(Min(cropOptions.left, afterBottom.width - 1), 0,
                            afterBottom.width, afterBottom.height)
            ELSE afterBottom
    IN  IF Wants("right")
        THEN PhotonCrop(0, 0, Max(1, afterLeft.width - cropOptions.right),
                        afterLeft.height)
        ELSE afterLeft

\* preventUpscale returns the target whatever noUpscale says.
PreventUpscaleIgnored(noUpscale, targetW, targetH, inputWidth, inputHeight) ==
    [threw |-> FALSE, width |-> targetW, height |-> targetH]

\* pipeline.ts 360-365: preventUpscale
PreventUpscale(noUpscale, targetW, targetH, inputWidth, inputHeight) ==
    IF noUpscale /\ (targetW > inputWidth \/ targetH > inputHeight)
    THEN [threw |-> FALSE, width |-> inputWidth, height |-> inputHeight]
    ELSE [threw |-> FALSE, width |-> targetW, height |-> targetH]

\* The comparison of the aspect ratios is the wrong way round.
ContainTargetInverted(width, height, inputWidth, inputHeight) ==
    IF inputWidth * height < width * inputHeight
    THEN [width |-> width, height |-> RoundDiv(width * inputHeight, inputWidth)]
    ELSE [width |-> RoundDiv(height * inputWidth, inputHeight),
          height |-> height]

\* pipeline.ts 384-394: the target of the contain mode: the dimension that
\* limits keeps its target, the other one is scaled.
ContainTarget(width, height, inputWidth, inputHeight) ==
    IF inputWidth * height > width * inputHeight
    THEN [width |-> width, height |-> RoundDiv(width * inputHeight, inputWidth)]
    ELSE [width |-> RoundDiv(height * inputWidth, inputHeight),
          height |-> height]

\* pipeline.ts 352-407: calculateResizeDimensions.  Math.round of a quotient
\* is taken of the exact quotient.
CalculateResizeDimensions(operation, inputWidth, inputHeight) ==
    LET mode      == Get(operation, "mode", Undefined)
        noUpscale == Get(operation, "noUpscale", FALSE)
        Prevent(targetW, targetH) ==
            PreventUpscale(noUpscale, targetW, targetH, inputWidth, inputHeight)
    IN  CASE mode = "width" ->
               IF ~Truthy(operation, "width")
               THEN Threw("Width is required")
               ELSE Prevent(operation.width,
                            RoundDiv(operation.width * inputHeight, inputWidth))
          [] mode = "height" ->
               IF ~Truthy(operation, "height")
               THEN Threw("Height is required")
               ELSE Prevent(RoundDiv(operation.height * inputWidth, inputHeight),
                            operation.height)
          [] mode = "contain" ->
               IF ~Truthy(operation, "width") \/ ~Truthy(operation, "height")
               THEN Threw("Both dimensions required")
               ELSE LET target == ContainTarget(operation.width,
                                                operation.height,
                                                inputWidth, inputHeight)
                    IN  Prevent(target.width, target.height)
          [] mode \in {"cover", "exact"} ->
               IF ~Truthy(operation, "width") \/ ~Truthy(operation, "height")
               THEN Threw("Both dimensions required")
               ELSE Prevent(operation.width, operation.height)
          [] OTHER -> Threw("Unknown resize mode")

\* wasmImageProcessor.ts 142-194: applyResize, on the image's size; photon's
\* resize(img, w, h) gives an image of w x h.
WasmApplyResize(size, resizeOptions) ==
    LET mode          == Get(resizeOptions, "mode", Undefined)
        noUpscale     == Get(resizeOptions, "noUpscale", FALSE)
        currentWidth  == size.width
        currentHeight == size.height
    IN  CASE mode = "none" -> size
          [] mode = "width" /\ Truthy(resizeOptions, "width") ->
               IF noUpscale /\ resizeOptions.width > currentWidth
               THEN size
               ELSE [width |-> resizeOptions.width,
                     height |-> RoundDiv(currentHeight * resizeOptions.width,
                                         currentWidth)]
          [] mode = "height" /\ Truthy(resizeOptions, "height") ->
               IF noUpscale /\ resizeOptions.height > currentHeight
               THEN size
               ELSE [width |-> RoundDiv(currentWidth * resizeOptions.height,
                                        currentHeight),
                     height |-> resizeOptions.height]
          [] /\ mode = "contain"
             /\ Truthy(resizeOptions, "width")
             /\ Truthy(resizeOptions, "height") ->
               LET widthLimits == resizeOptions.width * currentHeight
                                     <= resizeOptions.height * currentWidth
                   enlarges    == /\ resizeOptions.width > currentWidth
                                  /\ resizeOptions.height > currentHeight
               IN  IF noUpscale /\ enlarges
                   THEN size
                   ELSE IF widthLimits
                   THEN [width |-> resizeOptions.width,
                         height |-> RoundDiv(currentHeight * resizeOptions.width,
                                             currentWidth)]
                   ELSE [width |-> RoundDiv(currentWidth * resizeOptions.height,
                                            currentHeight),
                         height |-> resizeOptions.height]
          [] OTHER -> size

\* ------------------------------------------------- pipelines from options
\* An option value is held as its form and the runs of digits in it, in the
\* order they stand in the string: "x600" is [form |-> "xH", numbers |->
\* <<600>>].  A key that holds undefined is left out of the record built:
\* every reader of these records reads a missing key and undefined alike.
NoMatch == [matched |-> FALSE]

\* part_007 203-209: the patterns, in order; each captures the runs of digits
\* of the string as groups 1, 2 from left to right
ResizePatterns ==
    <<[form |-> "WxH", mode |-> "exact"],
      [form |-> "Wx", mode |-> "width"],
      [form |-> "xH", mode |-> "height"],
      [form |-> "contain:WxH", mode |-> "contain"],
      [form |-> "cover:WxH", mode |-> "cover"]>>

\* part_007 214-224: width from group 1, height from group 2
ResizeFromMatch(mode, match, noUpscale) ==
    Restrict([op |-> "resize", mode |-> mode,
              width |-> IF Len(match) >= 1 THEN match[1] ELSE 0,
              height |-> IF Len(match) >= 2 THEN match[2] ELSE 0,
              noUpscale |-> noUpscale],
             {"op", "mode", "noUpscale"}
                \cup (IF Len(match) >= 1 THEN {"width"} ELSE {})
                \cup (IF Len(match) >= 2 THEN {"height"} ELSE {}))

\* part_007 201-230: parseResizeArg
ParseResizeArg(resize, noUpscale) ==
    LET hits == {n \in 1..Len(ResizePatterns) :
                    ResizePatterns[n].form = resize.form}
    IN  IF hits = {} THEN NoMatch
        ELSE LET n == CHOOSE n \in hits : \A m \in hits : n <= m
             IN  [matched |-> TRUE,
                  operation |-> ResizeFromMatch(ResizePatterns[n].mode,
                                                resize.numbers, noUpscale)]

GravityNames ==
    {"north", "south", "east", "west", "center", "northeast", "northwest",
     "southeast", "southwest"}

\* part_007 235-264: parseCropArg
ParseCropArg(crop) ==
    CASE crop.form \in {"top", "bottom", "left", "right"} ->
           [matched |-> TRUE,
            operation |-> [op |-> "crop", edge |-> crop.form,
                           value |-> crop.numbers[1]]]
      [] crop.form = "pct" ->
           [matched |-> TRUE,
            operation |-> [op |-> "crop", edge |-> "top",
                           percent |-> crop.numbers[1]]]
      [] crop.form = "gravity" /\ crop.name \in GravityNames ->
           [matched |-> TRUE,
            operation |-> [op |-> "crop", gravity |-> crop.name]]
      [] OTHER -> NoMatch

\* part_007 143-197: buildPipelineFromArgs
BuildPipelineFromArgs(args) ==
    LET cropOp   == IF Has(args, "crop") THEN ParseCropArg(args.crop)
                    ELSE NoMatch
        resizeOp == IF Has(args, "resize")
                    THEN ParseResizeArg(args.resize, args.noUpscale)
                    ELSE NoMatch
    IN  [pipeline |->
            <<[op |-> "metadata", autorotate |-> TRUE, strip |-> FALSE]>>
            \o (IF cropOp.matched THEN <<cropOp.operation>> ELSE <<>>)
            \o (IF resizeOp.matched THEN <<resizeOp.operation>> ELSE <<>>)
            \o (IF Has(args, "format")
                THEN <<[op |-> "convert", format |-> args.format,
                        quality |-> args.quality]>>
                ELSE <<>>)
            \o (IF args.strip THEN <<[op |-> "metadata", strip |-> TRUE]>>
                ELSE <<>>),
         output |-> [dir |-> args.output]]

\* ------------------------------------------------- encoding in the browser
\* wasmImageProcessor.ts 203-225: getImageBytes, as the encoder that runs and
\* what it writes to the console
GetImageBytes(format, quality) ==
    CASE format \in {"jpg", "jpeg"} ->
           [encoder |-> "jpeg", quality |-> quality, warned |-> <<>>]
      [] format = "webp" ->
           [encoder |-> "webp", quality |-> Undefined,
            warned |-> <<"[WASM] WebP using lossless compression">>]
      [] format = "avif" ->
           [encoder |-> "webp", quality |-> Undefined,
            warned |-> <<"AVIF format not supported, using WebP lossless">>]
      [] OTHER ->
           [encoder |-> "png", quality |-> Undefined, warned |-> <<>>]

\* wasmImageProcessor.ts 230-235: getFileExtension
GetFileExtension(format) ==
    CASE format = "avif" -> "webp"
      [] format \in {"jpg", "jpeg"} -> "jpg"
      [] OTHER -> format

\* wasmImageProcessor.ts 240-245: getMimeType
GetMimeType(format) ==
    CASE format = "avif" -> "image/webp"
      [] format \in {"jpg", "jpeg"} -> "image/jpeg"
      [] format = "webp" -> "image/webp"
      [] OTHER -> "image/png"

\* wasmImageProcessor.ts 275-305: processImageWASM from the encoding on; the
\* blob is what the url of the result gives access to, its size the size of
\* the bytes the encoder wrote.
WasmEncode(baseName, options) ==
    LET format  == IF TruthyString(options, "format") THEN options.format
                   ELSE "png"
        quality == IF Truthy(options, "quality") THEN options.quality ELSE 80
        bytes   == GetImageBytes(format, quality)
    IN  [threw |-> FALSE,
         console |-> bytes.warned,
         value |-> [success |-> TRUE,
                    filename |-> <<baseName, "_processed.",
                                   GetFileExtension(format)>>,
                    url |-> [type |-> GetMimeType(format),
                             bytes |-> Restrict(bytes, {"encoder", "quality"})],
                    size |-> Restrict(bytes, {"encoder", "quality"})]]

\* ------------------------------------------------- crops of the browser UI
CropEdges == <<"top", "bottom", "left", "right">>

\* PresetSelector.tsx 58-65: getPixelValue
GetPixelValue(cropMode, value) ==
    IF cropMode = "percent" THEN value * 10 ELSE value

\* PresetSelector.tsx 56-72: the crop operations of buildAndUpdatePipeline;
\* amounts holds cropTop, cropBottom, cropLeft and cropRight
PresetCropOperations(cropEnabled, cropMode, amounts) ==
    LET Push(n) ==
            IF amounts[CropEdges[n]] > 0
            THEN <<[op |-> "crop", edge |-> CropEdges[n],
                    value |-> GetPixelValue(cropMode, amounts[CropEdges[n]])]>>
            ELSE <<>>
    IN  IF cropEnabled THEN Push(1) \o Push(2) \o Push(3) \o Push(4) ELSE <<>>

\* part_018 34-47: the crop operations of the settings panel's updatePipeline
SettingsCropOperations(enableCrop, cropMode, amounts) ==
    LET Push(n) ==
            IF amounts[CropEdges[n]] > 0
            THEN <<[op |-> "crop", edge |-> CropEdges[n],
                    value |-> amounts[CropEdges[n]], mode |-> cropMode]>>
            ELSE <<>>
    IN  IF enableCrop THEN Push(1) \o Push(2) \o Push(3) \o Push(4) ELSE <<>>

\* App.tsx 37-59: the body of the loop of pipelineToProcessingOptions
OptionsWith(options, op) ==
    CASE op.op = "resize" ->
           [f \in DOMAIN options \cup {"resize"} |->
               IF f = "resize"
               THEN [mode |-> IF TruthyString(op, "mode") THEN op.mode
                              ELSE "none"]
                    @@ Restrict(op, DOMAIN op \cap
                                    {"width", "height", "noUpscale"})
               ELSE options[f]]
      [] op.op = "crop" ->
           LET before == IF Has(options, "crop") THEN options.crop
                         ELSE [f \in {} |-> 0]
               edge   == IF op.edge \in Range(CropEdges)
                         THEN [f \in {op.edge} |-> op.value]
                         ELSE [f \in {} |-> 0]
               mode   == IF TruthyString(op, "mode")
                         THEN [mode |-> op.mode] ELSE [f \in {} |-> 0]
           IN  [f \in DOMAIN options \cup {"crop"} |->
                   IF f = "crop" THEN mode @@ edge @@ before
                   ELSE options[f]]
      [] op.op = "convert" ->
           [f \in DOMAIN options \cup {"format", "quality"} |->
               IF f \in {"format", "quality"} THEN op[f] ELSE options[f]]
      [] OTHER -> options

\* App.tsx 34-62: pipelineToProcessingOptions, from the n-th operation on
RECURSIVE PipelineToProcessingOptions(_, _, _)
PipelineToProcessingOptions(operations, n, options) ==
    IF n > Len(operations) THEN options
    ELSE PipelineToProcessingOptions(operations, n + 1,
                                     OptionsWith(options, operations[n]))

\* wasmImageProcessor.ts 266-270: processImageWASM crops when options.crop
\* is set; the size of the image after it
WasmCropped(size, options) ==
    IF Has(options, "crop") THEN WasmApplyCrop(size, options.crop) ELSE size

\* The size an image has after the crop entered in the UI, on the preset path
\* or on the custom-settings path.
UiCrop(path, cropMode, amounts, size) ==
    LET operations == IF path = "preset"
                      THEN PresetCropOperations(TRUE, cropMode, amounts)
                      ELSE SettingsCropOperations(TRUE, cropMode, amounts)
    IN  WasmCropped(size,
            PipelineToProcessingOptions(operations, 1, [f \in {} |-> 0]))

\* ------------------------------------------------------- output file names
\* Strings of this section are sequences of symbols: the braces, the dollar
\* sign and the ampersand are symbols of their own, a placeholder name or a
\* run of other characters is one symbol.
Placeholder(name) == <<"{", name, "}">>

\* part_010 20-30: the keys of replacements, in the order of Object.entries
TokenOrder ==
    <<"base", "ext", "w", "h", "fmt", "preset", "idx", "hash", "date">>
NumberTokens == {"w", "h", "idx"}

\* Number.prototype.toString for the numbers below 100
Digits == <<"0", "1", "2", "3", "4", "5", "6", "7", "8", "9">>
NumberToString(n) ==
    IF n < 10 THEN <<Digits[n + 1]>>
    ELSE <<Digits[(n \div 10) + 1], Digits[(n % 10) + 1]>>

\* part_010 20-30: tokens.base, tokens.w?.toString() ?? '', tokens.fmt ?? ''
ReplacementOf(tokens, name) ==
    IF name \notin DOMAIN tokens THEN <<>>
    ELSE IF name \in NumberTokens THEN NumberToString(tokens[name])
    ELSE tokens[name]

\* String.prototype.replace with a string as the replacement: in it $$ stands
\* for a dollar sign and $& for the matched text; a dollar sign before any
\* other symbol of this alphabet stands for itself.
RECURSIVE GetSubstitution(_, _)
GetSubstitution(matched, replacement) ==
    IF replacement = <<>> THEN <<>>
    ELSE IF Len(replacement) >= 2 /\ replacement[1] = "$"
                                  /\ replacement[2] = "$"
    THEN <<"$">> \o
         GetSubstitution(matched, SubSeq(replacement, 3, Len(replacement)))
    ELSE IF Len(replacement) >= 2 /\ replacement[1] = "$"
                                  /\ replacement[2] = "&"
    THEN matched \o
         GetSubstitution(matched, SubSeq(replacement, 3, Len(replacement)))
    ELSE <<replacement[1]>> \o GetSubstitution(matched, Tail(replacement))

\* part_010 33: filename.replace(new RegExp('\\{name\\}', 'g'), value); the
\* matches are found left to right in str, the text put in is not scanned
\* again for the same placeholder.
RECURSIVE ReplaceGlobal(_, _, _)
ReplaceGlobal(str, name, value) ==
    IF str = <<>> THEN <<>>
    ELSE IF Len(str) >= 3 /\ SubSeq(str, 1, 3) = Placeholder(name)
    THEN GetSubstitution(Placeholder(name), value)
         \o ReplaceGlobal(SubSeq(str, 4, Len(str)), name, value)
    ELSE <<str[1]>> \o ReplaceGlobal(Tail(str), name, value)

\* part_010 32-34: the loop over the replacements, each on the result of the
\* one before
RECURSIVE ReplaceFrom(_, _, _)
ReplaceFrom(filename, tokens, n) ==
    IF n > Len(TokenOrder) THEN filename
    ELSE ReplaceFrom(ReplaceGlobal(filename, TokenOrder[n],
                                   ReplacementOf(tokens, TokenOrder[n])),
                     tokens, n + 1)

\* part_010 13-37: generateOutputFilename
GenerateOutputFilename(pattern, tokens) ==
    [threw |-> FALSE, value |-> ReplaceFrom(pattern, tokens, 1)]

\* ------------------------------------------------------------ single calls
\* The sizes an image can have, and with 0 for a dimension that is unknown.
Sizes == {[width |-> w, height |-> h] : w \in 1..MaxDim, h \in 1..MaxDim}
MetadataSizes ==
    {[width |-> w, height |-> h] : w \in 0..MaxDim, h \in 0..MaxDim}

\* Crop operations: every combination of the fields the four schemes read.
CropOperations ==
    {Restrict([op |-> "crop", left |-> 0, top |-> 1, width |-> 2,
               height |-> 1, gravity |-> "north", edge |-> e,
               percent |-> p, value |-> v], {"op"} \cup corner \cup rest) :
        e \in {"top", "bottom", "left", "right", "middle"},
        p \in {50, 100},
        v \in {1, MaxDim + 1},
        corner \in {{}, {"left", "top"}},
        rest \in SUBSET {"width", "height", "gravity", "edge", "percent",
                         "value"}}

\* Crop options of the WASM processor: each edge absent, 1 or more than any
\* dimension.
WasmCropOptions ==
    {Restrict([top |-> t, bottom |-> b, left |-> l, right |-> r], S) :
        t \in {1, MaxDim + 1}, b \in {1, MaxDim + 1},
        l \in {1, MaxDim + 1}, r \in {1, MaxDim + 1},
        S \in SUBSET {"top", "bottom", "left", "right"}}

\* Resize operations: every mode with every choice of target dimensions.
ResizeOperations ==
    {Restrict([op |-> "resize", mode |-> m, width |-> w, height |-> h,
               noUpscale |-> TRUE], {"op", "mode"} \cup S) :
        m \in {"width", "height", "contain", "cover", "exact", "none"},
        w \in 1..(MaxDim + 1), h \in 1..(MaxDim + 1),
        S \in SUBSET {"width", "height", "noUpscale"}}

\* Convert operations: every format with and without a quality.
ConvertOperations ==
    {Restrict([op |-> "convert", format |-> f, quality |-> q,
               progressive |-> TRUE], {"op", "format"} \cup S) :
        f \in {"jpg", "png", "webp", "avif", "tiff", "heic"},
        q \in {1, 50, 100},
        S \in SUBSET {"quality", "progressive"}}

\* Metadata operations: strip and autorotate given or left to their default.
MetadataOperations ==
    {Restrict([op |-> "metadata", strip |-> st, autorotate |-> ar],
              {"op"} \cup S) :
        st \in BOOLEAN, ar \in BOOLEAN, S \in SUBSET {"strip", "autorotate"}}

\* Patterns: those of the tests, a repeated and an unknown placeholder, no
\* placeholder, an unclosed brace, the optional tokens.
NamePatterns ==
    { Placeholder("base") \o <<"_">> \o Placeholder("w") \o <<"x">>
          \o Placeholder("h") \o <<".">> \o Placeholder("ext"),
      Placeholder("base") \o <<"_">> \o Placeholder("preset") \o <<".">>
          \o Placeholder("ext"),
      Placeholder("base") \o Placeholder("foo") \o Placeholder("base"),
      <<"out">>,
      <<"{", "base">>,
      Placeholder("idx") \o Placeholder("hash") \o Placeholder("date")
          \o Placeholder("fmt") }

\* Token sets: base and ext always, the others given or not. A file name may
\* hold braces, dollar signs and ampersands.
NamingTokenSets ==
    {Restrict([base |-> b, ext |-> e, w |-> n, h |-> 12, fmt |-> <<"webp">>,
               preset |-> <<"web-large">>, idx |-> 0, hash |-> <<"9f">>,
               date |-> <<"2025">>], {"base", "ext"} \cup S) :
        b \in {<<"image">>, <<"a", "$", "&">>, <<"$", "$">>, <<"$">>,
               Placeholder("ext"), Placeholder("foo")},
        e \in {<<"jpg">>, Placeholder("base")},
        n \in {4, 10},
        S \in {{}, {"w", "h"}, {"preset"},
                {"w", "h", "fmt", "preset", "idx", "hash", "date"}}}

\* The values of --resize and --crop: every form the help text names, and
\* one it does not.
ArgNumbers == {1, MaxDim}
ResizeArgs ==
    {[form |-> f, numbers |-> <<w, h>>] :
        f \in {"WxH", "contain:WxH", "cover:WxH"},
        w \in ArgNumbers, h \in ArgNumbers}
    \cup {[form |-> f, numbers |-> <<n>>] :
        f \in {"Wx", "xH"}, n \in ArgNumbers}
    \cup {[form |-> "other", numbers |-> <<>>]}
CropArgs ==
    {[form |-> f, numbers |-> <<n>>] :
        f \in {"top", "bottom", "left", "right", "pct"}, n \in ArgNumbers}
    \cup {[form |-> "gravity", name |-> g] : g \in {"center", "north"}}
    \cup {[form |-> "other", numbers |-> <<>>]}
CliArgs ==
    {Restrict([resize |-> r, crop |-> c, noUpscale |-> nu, strip |-> st,
               format |-> "jpg", quality |-> 85, output |-> "out"],
              {"noUpscale", "strip", "quality", "output"} \cup S) :
        r \in ResizeArgs, c \in CropArgs, nu \in BOOLEAN, st \in BOOLEAN,
        S \in {{}, {"resize"}, {"crop"}, {"resize", "crop", "format"}}}

\* The format and quality of ProcessingOptions, given or not.
EncodeOptions ==
    {Restrict([format |-> f, quality |-> q], S) :
        f \in {"jpg", "png", "webp", "avif"}, q \in {0, 50, 80},
        S \in SUBSET {"format", "quality"}}

\* What is entered in the four crop fields of the UI.
CropAmounts == [Range(CropEdges) -> {0, 10, 50}]

\* The sizes of the UI's crop example beside the small ones.
UiSizes ==
    {[width |-> w, height |-> h] : w \in {MaxDim, 500, 1000},
                                   h \in {2, 500, 1000}}

\* The example of the width mode: a 4032 x 3024 photograph made 1024 wide.
PhotoSize == [width |-> 4032, height |-> 3024]
PhotoResize == [op |-> "resize", mode |-> "width", width |-> 1024,
                noUpscale |-> TRUE]

\* The functions called on their own.
Functions ==
    {"applyCrop", "wasmApplyCrop", "calculateResizeDimensions",
     "wasmApplyResize", "applyConvert", "applyMetadata",
     "generateOutputFilename", "buildPipelineFromArgs", "processImageWASM",
     "uiCrop"}

\* The calls of one function: its name and its arguments.
Calls(fn) ==
    CASE fn = "applyCrop" ->
           {[fn |-> fn, operation |-> o, metadata |-> m] :
               o \in CropOperations, m \in MetadataSizes}
      [] fn = "wasmApplyCrop" ->
           {[fn |-> fn, size |-> z, options |-> o] :
               z \in Sizes, o \in WasmCropOptions}
      [] fn \in {"calculateResizeDimensions", "wasmApplyResize"} ->
           {[fn |-> fn, operation |-> o, size |-> z] :
               o \in ResizeOperations, z \in Sizes}
           \cup {[fn |-> fn, operation |-> PhotoResize, size |-> PhotoSize]}
      [] fn = "applyConvert" ->
           {[fn |-> fn, operation |-> o] : o \in ConvertOperations}
      [] fn = "applyMetadata" ->
           {[fn |-> fn, operation |-> o] : o \in MetadataOperations}
      [] fn = "generateOutputFilename" ->
           {[fn |-> fn, pattern |-> p, tokens |-> t] :
               p \in NamePatterns, t \in NamingTokenSets}
      [] fn = "buildPipelineFromArgs" ->
           {[fn |-> fn, args |-> a] : a \in CliArgs}
      [] fn = "processImageWASM" ->
           {[fn |-> fn, name |-> "photo", options |-> o] :
               o \in EncodeOptions}
      [] fn = "uiCrop" ->
           {[fn |-> fn, path |-> p, cropMode |-> m, amounts |-> a,
             size |-> z] :
               p \in {"preset", "custom"}, m \in {"pixels", "percent"},
               a \in CropAmounts, z \in UiSizes}

Return(result) ==
    /\ fresult' = result
    /\ fpc' = "done"
    /\ UNCHANGED fcall
    /\ UNCHANGED notCallVars

CallApplyCrop ==
    /\ fpc = "call" /\ fcall.fn = "applyCrop"
    /\ Return(ApplyCrop(fcall.operation, fcall.metadata))

CallWasmApplyCrop ==
    /\ fpc = "call" /\ fcall.fn = "wasmApplyCrop"
    /\ Return([threw |-> FALSE,
               size |-> WasmApplyCrop(fcall.size, fcall.options)])

CallCalculateResizeDimensions ==
    /\ fpc = "call" /\ fcall.fn = "calculateResizeDimensions"
    /\ Return(CalculateResizeDimensions(fcall.operation, fcall.size.width,
                                        fcall.size.height))

CallWasmApplyResize ==
    /\ fpc = "call" /\ fcall.fn = "wasmApplyResize"
    /\ Return([threw |-> FALSE,
               size |-> WasmApplyResize(fcall.size, fcall.operation)])

CallApplyConvert ==
    /\ fpc = "call" /\ fcall.fn = "applyConvert"
    /\ Return(ApplyConvert(fcall.operation))

CallApplyMetadata ==
    /\ fpc = "call" /\ fcall.fn = "applyMetadata"
    /\ Return(ApplyMetadata(fcall.operation))

CallGenerateOutputFilename ==
    /\ fpc = "call" /\ fcall.fn = "generateOutputFilename"
    /\ Return(GenerateOutputFilename(fcall.pattern, fcall.tokens))

CallBuildPipelineFromArgs ==
    /\ fpc = "call" /\ fcall.fn = "buildPipelineFromArgs"
    /\ Return([threw |-> FALSE, value |-> BuildPipelineFromArgs(fcall.args)])

CallWasmEncode ==
    /\ fpc = "call" /\ fcall.fn = "processImageWASM"
    /\ Return(WasmEncode(fcall.name, fcall.options))

CallUiCrop ==
    /\ fpc = "call" /\ fcall.fn = "uiCrop"
    /\ Return([threw |-> FALSE,
               size |-> UiCrop(fcall.path, fcall.cropMode, fcall.amounts,
                               fcall.size)])

InitCall ==
    /\ BatchIdle
    /\ ImageIdle
    /\ EntryIdle
    /\ WasmInitIdle
    /\ cancelled = FALSE
    /\ \E fn \in Functions : fcall \in Calls(fn)
    /\ fpc = "call"
    /\ fresult = [threw |-> FALSE]

NextCall ==
    \/ CallApplyCrop
    \/ CallWasmApplyCrop
    \/ CallCalculateResizeDimensions
    \/ CallWasmApplyResize
    \/ CallApplyConvert
    \/ CallApplyMetadata
    \/ CallGenerateOutputFilename
    \/ CallBuildPipelineFromArgs
    \/ CallWasmEncode
    \/ CallUiCrop

SpecCall == InitCall /\ [][NextCall]_vars

\* ------------------------------------------------------------------ claims
\* The four addressing schemes of a crop, as the fields that select them.
KnownEdges == {"top", "bottom", "left", "right"}
HasRectangle(o) == {"left", "top", "width", "height"} \subseteq DOMAIN o
HasGravityTarget(o) ==
    /\ SuppliesName(o, "gravity")
    /\ "width" \in DOMAIN o /\ o.width # 0
    /\ "height" \in DOMAIN o /\ o.height # 0
HasEdgePercent(o) == SuppliesName(o, "edge") /\ "percent" \in DOMAIN o
HasEdgeValue(o) == SuppliesName(o, "edge") /\ "value" \in DOMAIN o
SizeKnown(m) == m.width # 0 /\ m.height # 0

\* The extract call that removes amount pixels at the edge of an image of
\* size m, leaving at least one.
IsEdgeExtract(call, edge, amount, m) ==
    /\ call.call = "extract"
    /\ call.left = (IF edge = "left" THEN amount ELSE 0)
    /\ call.top = (IF edge = "top" THEN amount ELSE 0)
    /\ call.width = (IF edge \in {"left", "right"}
                     THEN Max(1, m.width - amount) ELSE m.width)
    /\ call.height = (IF edge \in {"top", "bottom"}
                      THEN Max(1, m.height - amount) ELSE m.height)

CropReturned == fpc = "done" /\ fcall.fn = "applyCrop"

\* An edge crop was resolved: no other scheme precedes it.
EdgeCropReturned ==
    /\ CropReturned
    /\ SizeKnown(fcall.metadata)
    /\ ~HasRectangle(fcall.operation)
    /\ ~HasGravityTarget(fcall.operation)
    /\ HasEdgePercent(fcall.operation) \/ HasEdgeValue(fcall.operation)
    /\ fcall.operation.edge \in KnownEdges

AmountOf(o, m) ==
    IF "percent" \in DOMAIN o
    THEN RoundDiv(o.percent * (IF o.edge \in {"top", "bottom"}
                               THEN m.height ELSE m.width), 100)
    ELSE o.value

C14_CropSchemePriority ==
    CropReturned =>
       LET o == fcall.operation
           m == fcall.metadata
           call == fresult.calls[1]
       IN  IF ~SizeKnown(m)
           THEN fresult.threw
           ELSE IF HasRectangle(o)
           THEN /\ ~fresult.threw
                /\ call = [call |-> "extract", left |-> o.left, top |-> o.top,
                           width |-> o.width, height |-> o.height]
           ELSE IF HasGravityTarget(o)
           THEN /\ ~fresult.threw
                /\ call.call = "resize" /\ call.fit = "cover"
                /\ call.width = o.width /\ call.height = o.height
                /\ call.position = GravityToPosition(o.gravity)
           ELSE IF HasEdgePercent(o) /\ o.edge \in KnownEdges
           THEN /\ ~fresult.threw
                /\ IsEdgeExtract(call, o.edge,
                       RoundDiv(o.percent * (IF o.edge \in {"top", "bottom"}
                                             THEN m.height ELSE m.width), 100),
                       m)
           ELSE IF HasEdgeValue(o) /\ o.edge \in KnownEdges
           THEN ~fresult.threw /\ IsEdgeExtract(call, o.edge, o.value, m)
           ELSE fresult.threw

\* A crop that sets the fields of all four schemes was resolved as the
\* explicit rectangle.
C14_Witness ==
    /\ CropReturned
    /\ SizeKnown(fcall.metadata)
    /\ HasRectangle(fcall.operation)
    /\ HasGravityTarget(fcall.operation)
    /\ HasEdgePercent(fcall.operation)
    /\ HasEdgeValue(fcall.operation)
    /\ ~fresult.threw
    /\ fresult.calls[1].call = "extract"
    /\ fresult.calls[1].top = fcall.operation.top

\* The size a call of one of the two resize functions has returned.
ResizeReturned ==
    /\ fpc = "done"
    /\ fcall.fn \in {"calculateResizeDimensions", "wasmApplyResize"}
    /\ ~fresult.threw
ResizeOutput ==
    IF fcall.fn = "wasmApplyResize"
    THEN fresult.size
    ELSE [width |-> fresult.width, height |-> fresult.height]
NoUpscaleSet == Get(fcall.operation, "noUpscale", FALSE)

\* C15: with noUpscale set, a width-mode resize to more than the current
\* width returns the input size unchanged, and no mode returns a dimension
\* larger than the current one, in calculateResizeDimensions and in the WASM
\* applyResize.
C15_NoUpscaleNeverEnlarges ==
    (ResizeReturned /\ NoUpscaleSet) =>
       /\ ResizeOutput.width <= fcall.size.width
       /\ ResizeOutput.height <= fcall.size.height
       /\ ( /\ fcall.operation.mode = "width"
            /\ "width" \in DOMAIN fcall.operation
            /\ fcall.operation.width > fcall.size.width )
          => ResizeOutput = fcall.size

\* calculateResizeDimensions was asked to make an image wider than it is,
\* with noUpscale.
C15_Witness ==
    /\ ResizeReturned /\ NoUpscaleSet
    /\ fcall.fn = "calculateResizeDimensions"
    /\ fcall.operation.mode = "width"
    /\ "width" \in DOMAIN fcall.operation
    /\ fcall.operation.width = fcall.size.width + 1
    /\ fcall.size.height > 1
    /\ ResizeOutput = fcall.size

Abs(x) == IF x < 0 THEN 0 - x ELSE x

ContainReturned ==
    /\ ResizeReturned
    /\ ~NoUpscaleSet
    /\ fcall.operation.mode = "contain"
    /\ {"width", "height"} \subseteq DOMAIN fcall.operation

\* C16: a contain resize to W x H (noUpscale not set) gives a size that fits
\* in W x H, has one dimension equal to its target and the other one the
\* rounded value the aspect ratio gives, for every current size.
C16_ContainFits ==
    ContainReturned =>
       LET o == fcall.operation
           in == fcall.size
           out == ResizeOutput
       IN  /\ out.width <= o.width
           /\ out.height <= o.height
           /\ out.width = o.width \/ out.height = o.height
           /\ 2 * Abs(out.width * in.height - out.height * in.width)
                 <= Max(in.width, in.height)

\* A contain resize whose limiting dimension is the height, with a width
\* that had to be rounded.
C16_Witness ==
    /\ ContainReturned
    /\ fcall.fn = "calculateResizeDimensions"
    /\ ResizeOutput.height = fcall.operation.height
    /\ ResizeOutput.width < fcall.operation.width
    /\ ResizeOutput.width * fcall.size.height
          # ResizeOutput.height * fcall.size.width

\* The size of the pixels after the calls queued so far.
ActualSize == SharpSizeAfter(ifile, iimage, Len(iimage))
Succeeded ==
    ipc = "returned" /\ iresult.state = "fulfilled" /\ iresult.value.success
IsScenario(name) == ifile.name = name /\ \E c \in Scenarios : c.file = ifile

\* C17: a width-mode resize gives the width asked for and the height
\* round(currentHeight * width / currentWidth): the 4032 x 3024 photograph
\* run through [resize to width 1024 with noUpscale, convert to jpg at
\* quality 85] has the outcome width 1024, height 768, format jpg.
C17_WidthModeOutcome ==
    (Succeeded /\ IsScenario("photo")) =>
       /\ iresult.value.width = 1024
       /\ iresult.value.height = RoundDiv(3024 * 1024, 4032)
       /\ iresult.value.height = 768
       /\ iresult.value.format = "jpg"

\* C18: the width and height processImage tracks are the size the image has
\* after the operations applied so far, at every point of the loop and in
\* the outcome; in the example the crop leaves 2000 x 1800 and the resize
\* gives 800 x 720.
C18_TrackedSizeIsActual ==
    /\ (ipc \in {"loop", "mkdir", "toFile", "statOut"}) =>
          iw = ActualSize.width /\ ih = ActualSize.height
    /\ Succeeded =>
          /\ iresult.value.width = ActualSize.width
          /\ iresult.value.height = ActualSize.height
    /\ (Succeeded /\ IsScenario("square")) =>
          iresult.value.width = 800 /\ iresult.value.height = 720

\* C19: the output is encoded with the settings of the last convert
\* operation of the pipeline and the outcome's format is that operation's
\* format; without a convert operation the output is encoded in the format
\* of the input and the outcome reports that format.
C19_LastConvertDecidesFormat ==
    Succeeded =>
       LET converts == {i \in 1..Len(ipipe) : IsOp(ipipe[i], "convert")}
           encoding == SharpOutputEncoding(ifile, iimage, ipath)
       IN  IF converts # {}
           THEN LET last == ipipe[CHOOSE i \in converts :
                                     \A k \in converts : k <= i]
                IN  /\ encoding = ApplyConvert(last).calls[1]
                    /\ iresult.value.format = last.format
           ELSE /\ encoding.call = ifile.format
                /\ iresult.value.format = ifile.format

\* C20: for a convert to png the quality has no effect: applyConvert chooses
\* the same encoder options whatever the quality, and none that makes the
\* PNG encoder lossy (sharp quantises to a palette when given a quality).
C20_PngIgnoresQuality ==
    ( /\ fpc = "done" /\ fcall.fn = "applyConvert"
      /\ fcall.operation.format = "png" )
    => /\ ~fresult.threw
       /\ \A q \in 1..100 :
             ApplyConvert([quality |-> q] @@ fcall.operation) = fresult
       /\ "quality" \notin DOMAIN fresult.calls[1]
       /\ "palette" \notin DOMAIN fresult.calls[1]

\* ================================================== ensureWasmInitialized
\* The callers are the calls of processImageWASM (line 257) and of
\* processBatchWASM (line 326) the page has made; each awaits the promise
\* ensureWasmInitialized returned to it.
Callers == 1..MaxCallers
NotCalling == [pc |-> "idle", promise |-> 0]

batchOnlyVars == <<impl, inputs, concurrency, bpc, bi, queue, runs, promises,
                   finished, results, completed>>
notInitVars == <<batchOnlyVars, imageVars, entryVars, callVars, cancelled>>

\* The catch block leaves the promise of the failed attempt in place.
GuardAfterFailureKept(promise) == promise

\* wasmImageProcessor.ts 54: wasmInitPromise = null
GuardAfterFailure(promise) == 0

\* wasmImageProcessor.ts 31-58: a caller runs ensureWasmInitialized up to its
\* return: it returns at once, or returns the promise of the attempt under
\* way, or calls initPhoton and returns the promise of the new attempt.
EnsureEnter(c) ==
    /\ callers[c].pc \in {"idle", "returned", "threw"}
    /\ IF wasmInitialized
       THEN /\ callers' = [callers EXCEPT ![c] =
                              [pc |-> "returned", promise |-> 0]]
            /\ UNCHANGED <<wasmInitPromise, attempts>>
       ELSE IF wasmInitPromise # 0
       THEN /\ callers' = [callers EXCEPT ![c] =
                              [pc |-> "awaiting", promise |-> wasmInitPromise]]
            /\ UNCHANGED <<wasmInitPromise, attempts>>
       ELSE /\ Len(attempts) < MaxAttempts
            /\ attempts' = Append(attempts, "pending")
            /\ wasmInitPromise' = Len(attempts) + 1
            /\ callers' = [callers EXCEPT ![c] =
                              [pc |-> "awaiting", promise |-> Len(attempts) + 1]]
    /\ UNCHANGED wasmInitialized
    /\ UNCHANGED notInitVars

\* wasmImageProcessor.ts 44-56: initPhoton of the n-th attempt resolves or
\* rejects and the rest of the async block runs.
InitPhotonSettles(n) ==
    /\ n \in 1..Len(attempts)
    /\ attempts[n] = "pending"
    /\ \E ok \in BOOLEAN :
          IF ok
          THEN /\ wasmInitialized' = TRUE
               /\ attempts' = [attempts EXCEPT ![n] = "resolved"]
               /\ UNCHANGED wasmInitPromise
          ELSE /\ wasmInitPromise' = GuardAfterFailure(wasmInitPromise)
               /\ attempts' = [attempts EXCEPT ![n] = "rejected"]
               /\ UNCHANGED wasmInitialized
    /\ UNCHANGED callers
    /\ UNCHANGED notInitVars

\* wasmImageProcessor.ts 257, 326: the await of a caller ends when the
\* promise it was given settles.
EnsureResume(c) ==
    /\ callers[c].pc = "awaiting"
    /\ attempts[callers[c].promise] # "pending"
    /\ callers' = [callers EXCEPT ![c].pc =
                      IF attempts[callers[c].promise] = "resolved"
                      THEN "returned" ELSE "threw"]
    /\ UNCHANGED <<wasmInitialized, wasmInitPromise, attempts>>
    /\ UNCHANGED notInitVars

InitWasmInit ==
    /\ BatchIdle
    /\ ImageIdle
    /\ EntryIdle
    /\ CallIdle
    /\ cancelled = FALSE
    /\ wasmInitPromise = 0
    /\ attempts = <<>>
    /\ callers = [c \in Callers |-> NotCalling]

NextWasmInit ==
    \/ \E c \in Callers : EnsureEnter(c)
    \/ \E n \in 1..MaxAttempts : InitPhotonSettles(n)
    \/ \E c \in Callers : EnsureResume(c)

SpecWasmInit == InitWasmInit /\ [][NextWasmInit]_vars

\* ----------------------------------------------------------------- claims
MetadataReturned == fpc = "done" /\ fcall.fn = "applyMetadata"

\* C21: a metadata operation with strip = true (also by default) leaves the
\* encoder set to discard the embedded metadata, one with strip = false
\* leaves it set to keep them.
C21_StripDiscardsMetadata ==
    MetadataReturned =>
       /\ ~fresult.threw
       /\ SharpKeepsMetadata(fresult.calls)
             <=> ("strip" \in DOMAIN fcall.operation /\ ~fcall.operation.strip)

FilenameReturned == fpc = "done" /\ fcall.fn = "generateOutputFilename"

\* The pattern with every recognized placeholder in it replaced by its token
\* value and everything else as it stands.
RECURSIVE SubstituteRecognized(_, _)
SubstituteRecognized(pattern, tokens) ==
    IF pattern = <<>> THEN <<>>
    ELSE IF /\ Len(pattern) >= 3
            /\ pattern[1] = "{" /\ pattern[3] = "}"
            /\ \E n \in 1..Len(TokenOrder) : TokenOrder[n] = pattern[2]
    THEN ReplacementOf(tokens, pattern[2])
         \o SubstituteRecognized(SubSeq(pattern, 4, Len(pattern)), tokens)
    ELSE <<pattern[1]>> \o SubstituteRecognized(Tail(pattern), tokens)

\* C22: generateOutputFilename never throws and returns the pattern with
\* every occurrence of every recognized placeholder replaced by its token
\* value and every other part, unrecognized placeholders included, literally.
C22_SubstitutesOnlyRecognized ==
    FilenameReturned =>
       /\ ~fresult.threw
       /\ fresult.value = SubstituteRecognized(fcall.pattern, fcall.tokens)

\* The output files written so far.
OutputsWritten == efs \cap {OutputOf(k) : k \in 1..MaxFiles}

\* C23: a run of the CLI with --dry-run writes no output file, at any point
\* of the run and for any input.
C23_DryRunWritesNothing ==
    (entry = "cli" /\ eargs.dryRun) => OutputsWritten = {}

\* C24: once the deadline or the cancellation signal is raised during a
\* batch, the runs in flight go on to their end, no run that has not started
\* is started, and a run that has ended is never started again.
C24_CancellationStopsLaunches ==
    [][/\ cancelled =>
             \A k \in DOMAIN runs : runs[k] = "idle" => runs'[k] = "idle"
       /\ \A k \in DOMAIN runs : runs[k] = "settled" => runs'[k] = "settled"
      ]_vars

\* A pipeline has been built from options whose --resize and --crop values,
\* where given, have one of the forms the help text names.
AdvertisedForms ==
    {ResizePatterns[n].form : n \in 1..Len(ResizePatterns)}
    \cup {"top", "bottom", "left", "right", "pct", "gravity"}
BuiltFromAdvertised ==
    /\ fpc = "done" /\ fcall.fn = "buildPipelineFromArgs"
    /\ Has(fcall.args, "resize") => fcall.args.resize.form \in AdvertisedForms
    /\ Has(fcall.args, "crop") => fcall.args.crop.form \in AdvertisedForms
BuiltOperations(tag) ==
    {fresult.value.pipeline[n] : n \in
        {m \in 1..Len(fresult.value.pipeline) :
            fresult.value.pipeline[m].op = tag}}

\* C25: the pipeline built from any advertised form of --resize and --crop
\* with positive numbers passes validatePipeline, its resize operation is
\* there, carries the dimension its mode needs (xH: the height H) and is
\* accepted by applyResize, and its crop operation is there and is resolved
\* by applyCrop on every image.
C25_AdvertisedFormsRun ==
    BuiltFromAdvertised =>
       /\ ValidatePipeline(fresult.value).valid
       /\ Has(fcall.args, "resize") =>
             /\ BuiltOperations("resize") # {}
             /\ \A o \in BuiltOperations("resize") : ~ApplyResize(o).threw
             /\ fcall.args.resize.form = "xH" =>
                   \A o \in BuiltOperations("resize") :
                      /\ o.mode = "height" /\ Has(o, "height")
                      /\ o.height = fcall.args.resize.numbers[1]
       /\ Has(fcall.args, "crop") =>
             /\ BuiltOperations("crop") # {}
             /\ \A o \in BuiltOperations("crop"), m \in Sizes :
                   ~ApplyCrop(o, m).threw

\* The format a request names, and the format of an encoder.
RequestedFormat ==
    IF TruthyString(fcall.options, "format") THEN fcall.options.format
    ELSE "png"
FormatOfEncoder(encoder) == IF encoder = "jpeg" THEN "jpg" ELSE encoder
EncodedFormat == FormatOfEncoder(fresult.value.url.bytes.encoder)
EncodeReturned == fpc = "done" /\ fcall.fn = "processImageWASM"

\* C26: when the format encoded is not the format requested, the result tells
\* so: it holds a field an ordinary success does not hold, or differs from
\* the result of the request that names the encoded format outright.
C26_FallbackIsObservable ==
    (EncodeReturned /\ EncodedFormat # RequestedFormat) =>
       \/ ~fresult.value.success
       \/ DOMAIN fresult.value # {"success", "filename", "url", "size"}
       \/ fresult.value #
             WasmEncode(fcall.name,
                        [fcall.options EXCEPT !.format = EncodedFormat]).value

\* A percent crop from one edge only has been processed.
PercentFrom(edge) ==
    /\ fpc = "done" /\ fcall.fn = "uiCrop" /\ fcall.cropMode = "percent"
    /\ fcall.amounts[edge] > 0
    /\ \A e \in Range(CropEdges) \ {edge} : fcall.amounts[e] = 0
PercentOf(percent, dimension) == RoundDiv(percent * dimension, 100)

\* C27: a crop of P percent from one edge, entered in the UI on the preset
\* path or on the custom-settings path, removes round(P / 100 * dimension)
\* pixels of the dimension the image has (as long as that leaves a pixel).
C27_UiPercentOfDimension ==
    \A edge \in Range(CropEdges) :
       PercentFrom(edge) =>
          LET vertical  == edge \in {"top", "bottom"}
              dimension == IF vertical THEN fcall.size.height
                           ELSE fcall.size.width
              removed   == PercentOf(fcall.amounts[edge], dimension)
          IN  removed < dimension =>
                 /\ fresult.size.height =
                       fcall.size.height - (IF vertical THEN removed ELSE 0)
                 /\ fresult.size.width =
                       fcall.size.width - (IF vertical THEN 0 ELSE removed)

\* C28: the rectangle an edge crop hands to extract lies inside the image
\* whose size applyCrop was given: left >= 0, top >= 0, width >= 1,
\* height >= 1, left + width <= width of the image and top + height <= its
\* height, for every edge, pixel value and percentage, also for amounts that
\* reach or pass the dimension.
C28_ExtractInsideImage ==
    EdgeCropReturned =>
       /\ ~fresult.threw
       /\ \A n \in 1..Len(fresult.calls) :
             fresult.calls[n].call = "extract" =>
                LET call == fresult.calls[n]
                    size == fcall.metadata
                IN  /\ call.left >= 0 /\ call.top >= 0
                    /\ call.width >= 1 /\ call.height >= 1
                    /\ call.left + call.width <= size.width
                    /\ call.top + call.height <= size.height

\* C30: when a handler of /api/process or /api/process-batch has sent its
\* response, on whichever path, no uploaded temporary file is left on disk.
C30_UploadsDeleted ==
    (entry \in {"process", "process-batch"} /\ epc = "done") => euploads = {}

PendingAttempts == {n \in 1..Len(attempts) : attempts[n] = "pending"}
Awaiting(n) ==
    {c \in DOMAIN callers :
        callers[c].pc = "awaiting" /\ callers[c].promise = n}

\* C29: initPhoton runs at most once at a time and is not started again
\* after it has succeeded; the callers that wait while it runs wait for that
\* one attempt; wasmInitialized is true exactly after a successful
\* initPhoton and a caller returns normally only then; after a failed
\* attempt wasmInitPromise no longer holds the promise of that attempt.
C29_SingleFlight ==
    /\ Cardinality(PendingAttempts) <= 1
    /\ \A n \in 1..Len(attempts) :
          attempts[n] = "resolved" => n = Len(attempts)
    /\ \A n \in PendingAttempts :
          /\ wasmInitPromise = n
          /\ \A c \in DOMAIN callers :
                (callers[c].pc = "awaiting"
                    /\ attempts[callers[c].promise] = "pending")
                => callers[c].promise = n
    /\ wasmInitialized <=>
          \E n \in 1..Len(attempts) : attempts[n] = "resolved"
    /\ \A c \in DOMAIN callers :
          callers[c].pc = "returned" => wasmInitialized
    /\ wasmInitPromise # 0 => attempts[wasmInitPromise] # "rejected"

\* After a failed attempt a second one is under way and two callers wait
\* for it.
C29_Witness ==
    /\ attempts = <<"rejected", "pending">>
    /\ Cardinality(Awaiting(2)) >= 2
    /\ \E c \in DOMAIN callers : callers[c].pc = "threw"

====
